---------------------------- MODULE Spec2Model ----------------------------
(***************************************************************************)
(* Galaxy generation pipeline of UniverseIdleGame:                         *)
(*   generateGalaxy, generateCoreStars, generateSpiralPosition,            *)
(*   generateStarSystem, generatePlanet, generateResources,                *)
(*   generateHyperspaceLanes  (src/src/utils/galaxyGenerator.ts)           *)
(*   generateStarName, generatePlanetName                                  *)
(*                            (src/src/utils/nameGenerator.ts)             *)
(*   generateTraits, generateFaction, expandFactionTerritory,              *)
(*   generateInitialFactions  (src/src/utils/factionGenerator.ts)          *)
(*   selectStartingSystem     (src/src/utils/startingSystem.ts)            *)
(*                                                                         *)
(* Each entry point has its own specification (SpecLanes, SpecTraits,      *)
(* SpecFactions, SpecCluster, SpecStart, SpecEntryPoints, SpecGalaxy,      *)
(* SpecSystems, SpecNames): Init draws its inputs from bounded sets and    *)
(* the actions run the code's loops one iteration at a time.  Four more    *)
(* specifications run a part of an entry point on inputs of their own:     *)
(* SpecHomes and SpecHomesFair the home star loop of                       *)
(* generateInitialFactions, SpecExpansion its expansions and relations,    *)
(* SpecRanking the strict tier of selectStartingSystem on long arrays.     *)
(*                                                                         *)
(* Numbers.  Positions are integer coordinates.  Math.sqrt is monotone, so *)
(* wherever the code only compares distances (with each other or with a    *)
(* threshold) the model compares the squared distances, exactly.  Where    *)
(* the code does arithmetic on distances (the expansion score) the model   *)
(* uses distances in tenths of a unit.  Traits are in thousandths,         *)
(* relation scores in thousandths of a point.  Math.random() is a draw k   *)
(* of a grid 0..L-1 standing for k/L, or, in the galaxy, system and name   *)
(* generation, a value in units of 1 / FixedOne.                           *)
(***************************************************************************)
EXTENDS Integers, Sequences, FiniteSets, TLC

VARIABLES
    \* generateHyperspaceLanes
    lStars,        \* the stars argument: sequence of [id, position]
    lpc,           \* position in generateHyperspaceLanes
    allEdges,      \* allEdges (sorted once lpc leaves "start")
    shortEdges,    \* shortEdges (sorted once the second pass starts)
    lIdx,          \* index of the next edge of the running for-of loop
    ufParent,      \* UnionFind.parent
    ufRank,        \* UnionFind.rank
    mstEdges,      \* mstEdges (spanning tree edges, then the extra ones)
    usedEdges,     \* usedEdges (set of edge keys)
    addedExtra,    \* addedExtra
    lanes,         \* the returned HyperspaceLane list
    \* generateTraits
    tType,         \* the type argument
    tpc,           \* position in generateTraits
    tTraits,       \* the traits object
    \* selectStartingSystem
    sSystems,      \* the systems argument: sequence of StarSystem
    sFactions,     \* the factions argument: sequence of Faction
    spc,           \* position in selectStartingSystem
    sCandidates,   \* sortedSystems (strict tier), then backupSystems (relaxed tier)
    sTier,         \* the tier that produced the result
    sResult,       \* the returned system
    \* generateInitialFactions / expandFactionTerritory
    fStars,        \* the stars argument: sequence of [id, position]
    fpc,           \* position in generateInitialFactions
    fAttempt,      \* attempt (home star sampling loop)
    fBestStar,     \* bestStar: index into stars, 0 for null
    fMaxMinDistance, \* maxMinDistance (squared)
    fCandidates,   \* the unused candidates the running home search has drawn
                   \* (line 272), in the order of their first draw
    usedStars,     \* usedStars: ids of the home stars chosen so far
    factions,      \* factions: sequence of Faction
    fExpanding,    \* index of the faction expandFactionTerritory runs for
    unclaimedStars, \* unclaimedStars: star indices in insertion order
    \* generateGalaxy / generateCoreStars / generateSpiralPosition
    gpc,           \* position in generateGalaxy
    gStars,        \* stars
    gAttempts,     \* attempts (placement loop)
    gCoreStars,    \* coreStars of generateCoreStars
    gCoreAttempts, \* attempts of generateCoreStars
    gRaw,          \* raw_distance of the running generateSpiralPosition round
    \* stars.map(generateStarSystem)
    yStars,        \* the stars being mapped: sequence of [id]
    ypc,           \* position in generateStarSystem
    yStream,       \* the values Math.random() returns, in order (periodic)
    yPos,          \* number of values drawn so far, modulo the period
    yNum,          \* numPlanets
    yPlanets,      \* planets
    ySystems,      \* the systems made so far
    \* generateStarName / generatePlanetName
    npc,           \* "star": before generateStarName, "planet": before generatePlanetName
    nStarType,     \* starType
    nStarName,     \* the star's name
    nIndex,        \* planetIndex
    nPlanetName    \* the planet's name

laneVars == <<lStars, lpc, allEdges, shortEdges, lIdx, ufParent, ufRank,
              mstEdges, usedEdges, addedExtra, lanes>>

traitVars == <<tType, tpc, tTraits>>

startVars == <<sSystems, sFactions, spc, sCandidates, sTier, sResult>>

factionVars == <<fStars, fpc, fAttempt, fBestStar, fMaxMinDistance, fCandidates,
                 usedStars, factions, fExpanding, unclaimedStars>>

galaxyVars == <<gpc, gStars, gAttempts, gCoreStars, gCoreAttempts, gRaw>>

systemVars == <<yStars, ypc, yStream, yPos, yNum, yPlanets, ySystems>>

nameVars == <<npc, nStarType, nStarName, nIndex, nPlanetName>>

vars == <<laneVars, traitVars, startVars, factionVars, galaxyVars, systemVars,
          nameVars>>

notLaneVars == <<traitVars, startVars, factionVars, galaxyVars, systemVars, nameVars>>
notTraitVars == <<laneVars, startVars, factionVars, galaxyVars, systemVars, nameVars>>
notStartVars == <<laneVars, traitVars, factionVars, galaxyVars, systemVars, nameVars>>
notFactionVars == <<laneVars, traitVars, startVars, galaxyVars, systemVars, nameVars>>
notGalaxyVars == <<laneVars, traitVars, startVars, factionVars, systemVars, nameVars>>
notSystemVars == <<laneVars, traitVars, startVars, factionVars, galaxyVars, nameVars>>
notNameVars == <<laneVars, traitVars, startVars, factionVars, galaxyVars, systemVars>>

-----------------------------------------------------------------------------
(* Bounds *)

MaxLaneStars == 5      \* longest star list given to generateHyperspaceLanes
TraitLevels == 2       \* a trait's base draw is 0.3 + 0.4 * k / TraitLevels, k in 0..TraitLevels
MaxSystems == 3        \* longest systems array given to selectStartingSystem
PickLevels == 5        \* selectStartingSystem's Math.random() is k / PickLevels, k in 0..PickLevels-1
RandLevels == 3        \* a star index draw's Math.random() is k / RandLevels, k in 0..RandLevels-1
TypeLevels == 2 \* the Math.random() of a faction's type is k / TypeLevels
ExpandTarget == 2      \* the large star lists have 10 * ExpandTarget + 1 stars
MAX_STARS == 4         \* generateGalaxy's star cap (500 in the source), scaled down
NUM_CORE_STARS == 2    \* generateCoreStars' star cap (20 in the source), scaled down
MaxMappedStars == 2    \* longest star list mapped to star systems
StreamPeriod == 4      \* period of the sequence of Math.random() values
MaxRankedSystems == 7  \* longest systems array whose strict survivors are ranked

-----------------------------------------------------------------------------
(* Program constants *)

MAX_HYPERLANE_DISTANCE == 200
ExtraFactorNum == 3    \* EXTRA_CONNECTIONS_FACTOR = 0.3 = ExtraFactorNum / ExtraFactorDen
ExtraFactorDen == 10
MIN_DISTANCE_FROM_FACTIONS == 300
RelaxNum == 3          \* the relaxed tier's factor 0.75 = RelaxNum / RelaxDen
RelaxDen == 4
TopCount == 5          \* the strict tier picks among the first 5 of the ranking
MinPlanets == 2        \* the strict tier drops systems with planets.length < 2
FactionCount == 3      \* for (let i = 0; i < 3; i++)
HomeAttempts == 10     \* for (let attempt = 0; attempt < 10; attempt++)
TargetDivisor == 10    \* Math.floor((stars.length - 1) / 10)
MAX_EXPANSION_DISTANCE == 150
ADJACENT_DISTANCE == 100
BorderDistance == 300  \* distance < 300: "neighboring"
Infinity == 2000000000 \* above every squared distance of the model
GALAXY_RADIUS == 3000
MAX_PLANETS_PER_SYSTEM == 5
MaxResources == 3      \* 1 + Math.floor(Math.random() * 3)
BASE_MIN_STAR_DISTANCE == 100
MIN_CORE_STAR_DISTANCE == 80
AttemptsPerStar == 10  \* maxAttempts = MAX_STARS * 10 and NUM_CORE_STARS * 10
DropoffNum == 7        \* DENSITY_DROPOFF = 0.7 = DropoffNum / DropoffDen
DropoffDen == 10
CENTER_DENSITY_BOOST == 2
FixedOne == 10000      \* 1.0 in the fixed-point arithmetic of Math.exp and Math.random
ExpTerms == 12         \* terms of the series that stands for Math.exp
NegInfinity == -1      \* below every squared distance of the model

-----------------------------------------------------------------------------
(* Generic helpers *)

Min(a, b) == IF a < b THEN a ELSE b
Max(a, b) == IF a > b THEN a ELSE b

Range(s) == {s[i] : i \in 1..Len(s)}

\* Math.floor(Math.random() * len) for the draw k / levels (0-based index)
RandomIndex(k, levels, len) == (k * len) \div levels

\* Squared value of calculateDistance(pos1, pos2)
Dist2(p, q) == (q.x - p.x) * (q.x - p.x) + (q.y - p.y) * (q.y - p.y)

\* Array.prototype.sort((a, b) => a.distance - b.distance): a stable sort by
\* ascending distance (insertion of each element after its equals).
RECURSIVE InsertByDistance(_, _)
InsertByDistance(sorted, e) ==
    IF sorted = <<>> THEN <<e>>
    ELSE IF sorted[Len(sorted)].distance2 <= e.distance2
         THEN Append(sorted, e)
         ELSE Append(InsertByDistance(SubSeq(sorted, 1, Len(sorted) - 1), e),
                     sorted[Len(sorted)])

RECURSIVE SortByDistance(_)
SortByDistance(s) ==
    IF s = <<>> THEN <<>>
    ELSE InsertByDistance(SortByDistance(SubSeq(s, 1, Len(s) - 1)), s[Len(s)])

-----------------------------------------------------------------------------
(* generateHyperspaceLanes: inputs *)

\* Star ids are uuidv4 strings: pairwise distinct and of one length.
StarIds == <<"s1", "s2", "s3", "s4", "s5", "s6", "s7", "s8", "s9">>

LanePoints ==
    { [x |-> 0,   y |-> 0],   [x |-> 120, y |-> 0],   [x |-> 0,   y |-> 160],
      [x |-> 120, y |-> 160], [x |-> 300, y |-> 0],   [x |-> 600, y |-> 400] }

\* Star lists of n stars at pairwise distinct points
RECURSIVE StarLists(_)
StarLists(n) ==
    IF n = 0 THEN {<<>>}
    ELSE { Append(s, [id |-> StarIds[n], position |-> p]) :
             <<s, p>> \in { <<s, p>> \in StarLists(n - 1) \X LanePoints :
                              \A i \in 1..Len(s) : s[i].position # p } }

-----------------------------------------------------------------------------
(* generateHyperspaceLanes: code *)

\* The nested loops over i < j: pairs in the order (0,1), (0,2), ..., (n-2,n-1)
RECURSIVE PairEdges(_, _, _)
PairEdges(stars, i, j) ==
    IF i > Len(stars) THEN <<>>
    ELSE IF j > Len(stars) THEN PairEdges(stars, i + 1, i + 2)
    ELSE <<[fromStarId |-> stars[i].id, toStarId |-> stars[j].id,
            distance2 |-> Dist2(stars[i].position, stars[j].position)]>>
         \o PairEdges(stars, i, j + 1)

AllPairEdges(stars) == PairEdges(stars, 1, 2)

\* distance <= MAX_HYPERLANE_DISTANCE
IsShortEdge(e) == e.distance2 <= MAX_HYPERLANE_DISTANCE * MAX_HYPERLANE_DISTANCE

ShortPairEdges(stars) == SelectSeq(AllPairEdges(stars), IsShortEdge)

\* `${edge.fromStarId}-${edge.toStarId}`
EdgeKey(e) == e.fromStarId \o "-" \o e.toStarId

\* UnionFind.find(x) with path compression: the root, and parent afterwards
RECURSIVE UFFind(_, _)
UFFind(parent, x) ==
    IF parent[x] # x
    THEN LET r == UFFind(parent, parent[x])
         IN  [root |-> r.root, parent |-> [r.parent EXCEPT ![x] = r.root]]
    ELSE [root |-> x, parent |-> parent]

\* UnionFind.union(x, y): parent and rank afterwards
UFUnion(parent, rank, x, y) ==
    LET fx == UFFind(parent, x)
        fy == UFFind(fx.parent, y)
        rootX == fx.root
        rootY == fy.root
        p == fy.parent
    IN  IF rootX # rootY
        THEN IF rank[rootX] < rank[rootY]
             THEN [parent |-> [p EXCEPT ![rootX] = rootY], rank |-> rank]
             ELSE IF rank[rootX] > rank[rootY]
             THEN [parent |-> [p EXCEPT ![rootY] = rootX], rank |-> rank]
             ELSE [parent |-> [p EXCEPT ![rootY] = rootX],
                   rank |-> [rank EXCEPT ![rootX] = rank[rootX] + 1]]
        ELSE [parent |-> p, rank |-> rank]

\* Mutant: the spanning-tree pass walks only the short edges
MstCandidatesShortOnly(all, short) == SortByDistance(short)

\* As MstCandidates, without the sort
MstCandidatesUnsorted(all, short) == all

\* The edges the spanning-tree pass walks: allEdges, sorted
MstCandidates(all, short) == SortByDistance(all)

\* As ExtraConnections, rounding up
ExtraConnectionsRoundedUp(mstCount) ==
    (mstCount * ExtraFactorNum + ExtraFactorDen - 1) \div ExtraFactorDen

\* Math.floor(mstEdges.length * EXTRA_CONNECTIONS_FACTOR)
ExtraConnections(mstCount) == (mstCount * ExtraFactorNum) \div ExtraFactorDen

\* Mutant: the second pass does not look at usedEdges
ExtraEligibleAlways(e, used) == TRUE

\* The second pass adds an edge only if its key is not in usedEdges
ExtraEligible(e, used) == EdgeKey(e) \notin used

LanesStart ==
    /\ lStars \in UNION { StarLists(n) : n \in 1..MaxLaneStars }
    /\ lpc = "start"
    /\ allEdges = <<>>
    /\ shortEdges = <<>>
    /\ lIdx = 1
    /\ ufParent = <<>>
    /\ ufRank = <<>>
    /\ mstEdges = <<>>
    /\ usedEdges = {}
    /\ addedExtra = 0
    /\ lanes = <<>>

\* generateHyperspaceLanes is not running
LanesIdle ==
    /\ lStars = <<>>
    /\ lpc = "idle"
    /\ allEdges = <<>>
    /\ shortEdges = <<>>
    /\ lIdx = 1
    /\ ufParent = <<>>
    /\ ufRank = <<>>
    /\ mstEdges = <<>>
    /\ usedEdges = {}
    /\ addedExtra = 0
    /\ lanes = <<>>

\* Lines 358-387: collect the edges, sort allEdges, makeSet every star
BuildEdges ==
    /\ lpc = "start"
    /\ allEdges' = MstCandidates(AllPairEdges(lStars), ShortPairEdges(lStars))
    /\ shortEdges' = ShortPairEdges(lStars)
    /\ ufParent' = [id \in {lStars[i].id : i \in 1..Len(lStars)} |-> id]
    /\ ufRank' = [id \in {lStars[i].id : i \in 1..Len(lStars)} |-> 0]
    /\ lIdx' = 1
    /\ lpc' = "mst"
    /\ UNCHANGED <<lStars, mstEdges, usedEdges, addedExtra, lanes>>
    /\ UNCHANGED notLaneVars

\* Lines 391-397: one iteration of the spanning-tree loop
MstStep ==
    /\ lpc = "mst"
    /\ lIdx <= Len(allEdges)
    /\ LET edge == allEdges[lIdx]
           f1 == UFFind(ufParent, edge.fromStarId)
           f2 == UFFind(f1.parent, edge.toStarId)
       IN  IF f1.root # f2.root
           THEN LET u == UFUnion(f2.parent, ufRank, edge.fromStarId, edge.toStarId)
                IN  /\ mstEdges' = Append(mstEdges, edge)
                    /\ usedEdges' = usedEdges \cup {EdgeKey(edge)}
                    /\ ufParent' = u.parent
                    /\ ufRank' = u.rank
           ELSE /\ ufParent' = f2.parent
                /\ UNCHANGED <<mstEdges, usedEdges, ufRank>>
    /\ lIdx' = lIdx + 1
    /\ UNCHANGED <<lStars, lpc, allEdges, shortEdges, addedExtra, lanes>>
    /\ UNCHANGED notLaneVars

\* Lines 399-404: the spanning-tree loop is over; sort shortEdges
StartExtra ==
    /\ lpc = "mst"
    /\ lIdx > Len(allEdges)
    /\ shortEdges' = SortByDistance(shortEdges)
    /\ addedExtra' = 0
    /\ lIdx' = 1
    /\ lpc' = "extra"
    /\ UNCHANGED <<lStars, allEdges, ufParent, ufRank, mstEdges, usedEdges, lanes>>
    /\ UNCHANGED notLaneVars

\* extraConnections is computed once, from the spanning tree's edge count
TreeEdgeCount == Len(mstEdges) - addedExtra

\* Lines 406-415: one iteration of the extra-connection loop
ExtraStep ==
    /\ lpc = "extra"
    /\ lIdx <= Len(shortEdges)
    /\ addedExtra < ExtraConnections(TreeEdgeCount)
    /\ LET edge == shortEdges[lIdx]
       IN  IF ExtraEligible(edge, usedEdges)
           THEN /\ mstEdges' = Append(mstEdges, edge)
                /\ usedEdges' = usedEdges \cup {EdgeKey(edge)}
                /\ addedExtra' = addedExtra + 1
           ELSE UNCHANGED <<mstEdges, usedEdges, addedExtra>>
    /\ lIdx' = lIdx + 1
    /\ UNCHANGED <<lStars, lpc, allEdges, shortEdges, ufParent, ufRank, lanes>>
    /\ UNCHANGED notLaneVars

\* Lines 407, 417-423: the loop ends (break or exhausted); lanes are returned
ReturnLanes ==
    /\ lpc = "extra"
    /\ ~(lIdx <= Len(shortEdges) /\ addedExtra < ExtraConnections(TreeEdgeCount))
    /\ lanes' = [i \in 1..Len(mstEdges) |->
                   [fromStarId |-> mstEdges[i].fromStarId,
                    toStarId |-> mstEdges[i].toStarId,
                    distance2 |-> mstEdges[i].distance2]]
    /\ lpc' = "done"
    /\ UNCHANGED <<lStars, allEdges, shortEdges, lIdx, ufParent, ufRank,
                   mstEdges, usedEdges, addedExtra>>
    /\ UNCHANGED notLaneVars

LanesNext ==
    BuildEdges \/ MstStep \/ StartExtra \/ ExtraStep \/ ReturnLanes

-----------------------------------------------------------------------------
(* Properties of generateHyperspaceLanes *)

LaneStarIds == {lStars[i].id : i \in 1..Len(lStars)}

\* The star ids reachable from the ids in `seen` along lanes, in either direction
RECURSIVE ReachableFrom(_, _)
ReachableFrom(seen, ls) ==
    LET next == seen \cup {ls[i].toStarId : i \in {k \in 1..Len(ls) : ls[k].fromStarId \in seen}}
                     \cup {ls[i].fromStarId : i \in {k \in 1..Len(ls) : ls[k].toStarId \in seen}}
    IN  IF next = seen THEN seen ELSE ReachableFrom(next, ls)

\* C1: when generateHyperspaceLanes returns, every star is reachable from
\* every other star along the returned lanes taken as undirected edges.
C1_LanesConnected ==
    lpc = "done" =>
        \A a \in LaneStarIds : ReachableFrom({a}, lanes) = LaneStarIds

\* C1 witness: a returned lane list over at least three stars in which a lane
\* longer than MAX_HYPERLANE_DISTANCE was needed to connect them.
C1_Witness ==
    /\ lpc = "done"
    /\ Len(lStars) >= 3
    /\ \E i \in 1..Len(lanes) : ~IsShortEdge(lanes[i])

\* C2: no returned lane joins a star to itself, and no unordered pair of stars
\* is joined by two returned lanes (spanning-tree and extra pass together).
C2_NoSelfOrDuplicateLanes ==
    lpc = "done" =>
        /\ \A i \in 1..Len(lanes) : lanes[i].fromStarId # lanes[i].toStarId
        /\ \A i, j \in 1..Len(lanes) :
              i # j => {lanes[i].fromStarId, lanes[i].toStarId}
                       # {lanes[j].fromStarId, lanes[j].toStarId}

\* C2 witness: the extra pass added a lane after skipping a short edge that
\* the spanning tree had already used.
C2_Witness ==
    /\ lpc = "done"
    /\ addedExtra >= 1
    /\ \E k \in 1..(lIdx - 1) : \E t \in 1..TreeEdgeCount :
          EdgeKey(shortEdges[k]) = EdgeKey(mstEdges[t])

\* Does following parent from v lead to star 1 within k steps?
RECURSIVE LeadsToFirst(_, _, _)
LeadsToFirst(parent, v, k) ==
    \/ v = 1
    \/ k > 0 /\ LeadsToFirst(parent, parent[v], k - 1)

\* The spanning trees of the complete graph on n stars, each as the set of
\* its edges <<i, j>>, i < j (list positions): one tree per assignment of a
\* parent to the stars 2..n that leads every star to star 1
SpanningTreesOf(n) ==
    { { <<Min(v, parent[v]), Max(v, parent[v])>> : v \in 2..n } :
        parent \in { p \in [2..n -> 1..n] : \A v \in 2..n : LeadsToFirst(p, v, n) } }

\* <<n, tree>> for every spanning tree of n stars, n up to MaxLaneStars
SizedSpanningTrees ==
    UNION { {<<n, tree>> : tree \in SpanningTreesOf(n)} : n \in 1..MaxLaneStars }

SpanningTrees(n) == { st[2] : st \in {s \in SizedSpanningTrees : s[1] = n} }

LanePosition(id) == CHOOSE i \in 1..Len(lStars) : lStars[i].id = id

\* The edges the first pass selected, as pairs of list positions
FirstPassTree ==
    { <<Min(LanePosition(mstEdges[t].fromStarId), LanePosition(mstEdges[t].toStarId)),
        Max(LanePosition(mstEdges[t].fromStarId), LanePosition(mstEdges[t].toStarId))>> :
        t \in 1..TreeEdgeCount }

PairDistance2(pair) == Dist2(lStars[pair[1]].position, lStars[pair[2]].position)

LanePairs == {p \in (1..Len(lStars)) \X (1..Len(lStars)) : p[1] < p[2]}

\* The sets of pairs within a length, one for every length that occurs
PairsWithinLengths ==
    { {q \in LanePairs : PairDistance2(q) <= PairDistance2(p)} : p \in LanePairs }

\* Tree a has, within every length, at least as many edges as tree b: with
\* both sorted by ascending length, each edge of a is no longer than the edge
\* of b at its rank, so a's total distance is no more than b's.
NoLongerThan(a, b, lengths) ==
    \A within \in lengths : Cardinality(b \cap within) <= Cardinality(a \cap within)

\* C13: when the first pass of generateHyperspaceLanes is over it has selected
\* n - 1 edges; they form a spanning tree of the n stars, and no spanning tree
\* of the complete graph on the stars has a smaller total distance (rank by
\* rank its edges are at least as long). With one star no lane is returned.
C13_FirstPassMinimalSpanningTree ==
    /\ (lpc = "extra" /\ lIdx = 1) =>
          /\ Len(mstEdges) = Len(lStars) - 1
          /\ FirstPassTree \in SpanningTrees(Len(lStars))
          /\ LET first == FirstPassTree
                 lengths == PairsWithinLengths
             IN  \A tree \in SpanningTrees(Len(lStars)) :
                     NoLongerThan(first, tree, lengths)
    /\ (lpc = "done" /\ Len(lStars) = 1) => lanes = <<>>

\* The first pass is over for five stars or more, it skipped a pair that is
\* shorter than one it selected, and some other spanning tree is longer.
C13_Witness ==
    /\ lpc = "extra"
    /\ lIdx = 1
    /\ Len(lStars) >= 5
    /\ \E k \in 1..Len(allEdges) : \E t \in 1..Len(mstEdges) :
          /\ allEdges[k].distance2 < mstEdges[t].distance2
          /\ \A u \in 1..Len(mstEdges) : EdgeKey(allEdges[k]) # EdgeKey(mstEdges[u])
    /\ \E tree \in SpanningTrees(Len(lStars)) :
          ~NoLongerThan(tree, FirstPassTree, PairsWithinLengths)

\* The edges added beyond the spanning tree, as pairs of list positions
ExtraLanePairs ==
    { <<Min(LanePosition(mstEdges[t].fromStarId), LanePosition(mstEdges[t].toStarId)),
        Max(LanePosition(mstEdges[t].fromStarId), LanePosition(mstEdges[t].toStarId))>> :
        t \in (TreeEdgeCount + 1)..Len(mstEdges) }

\* The star pairs at distance <= 200 that are not spanning-tree edges
ShortNonTreePairs ==
    {p \in LanePairs : PairDistance2(p) <= 200 * 200 /\ p \notin FirstPassTree}

\* C14: the lanes returned beyond the spanning tree are k pairs of stars at
\* distance <= 200 that are not spanning-tree edges, k being the smaller of
\* floor(0.3 x spanning-tree edges) and the number of such pairs, and no such
\* pair left out is shorter than one of them; the lane count is at most
\* (n - 1) + floor(0.3 x (n - 1)).
C14_ExtraLanesAreShortest ==
    lpc = "done" =>
        LET extra == ExtraLanePairs
            eligible == ShortNonTreePairs
            treeEdges == Len(lanes) - Cardinality(extra)
            k == Min((3 * treeEdges) \div 10, Cardinality(eligible))
        IN  /\ treeEdges = Len(lStars) - 1
            /\ extra \subseteq eligible
            /\ Cardinality(extra) = k
            /\ \A p \in extra : \A q \in eligible \ extra :
                  PairDistance2(p) <= PairDistance2(q)
            /\ \A p \in extra : PairDistance2(p) <= 200 * 200
            /\ Len(lanes) <= (Len(lStars) - 1) + (3 * (Len(lStars) - 1)) \div 10

\* An extra lane was returned while a longer eligible pair was left out
C14_Witness ==
    /\ lpc = "done"
    /\ ExtraLanePairs # {}
    /\ \E p \in ExtraLanePairs : \E q \in ShortNonTreePairs \ ExtraLanePairs :
          PairDistance2(p) < PairDistance2(q)

-----------------------------------------------------------------------------
(* generateTraits *)

\* Object.values(FactionType), in declaration order
FactionTypes == <<"CORPORATE", "SCIENTIFIC", "MILITARISTIC", "PEACEFUL",
                  "XENOPHOBIC", "RELIGIOUS", "HIVE_MIND">>

TraitKeys == {"expansionist", "diplomatic", "aggressive", "technological", "economic"}

\* 0.3 + Math.random() * 0.4, in thousandths, for the draw k / levels
BaseTrait(k, levels) == 300 + (400 * k) \div levels

\* The switch of lines 85-114: what the archetype adds to a trait (thousandths)
Adjustment(type, key) ==
    CASE type = "CORPORATE"    /\ key = "economic"      -> 300
      [] type = "CORPORATE"    /\ key = "diplomatic"    -> 200
      [] type = "SCIENTIFIC"   /\ key = "technological" -> 300
      [] type = "SCIENTIFIC"   /\ key = "aggressive"    -> -200
      [] type = "MILITARISTIC" /\ key = "aggressive"    -> 300
      [] type = "MILITARISTIC" /\ key = "expansionist"  -> 200
      [] type = "PEACEFUL"     /\ key = "diplomatic"    -> 300
      [] type = "PEACEFUL"     /\ key = "aggressive"    -> -300
      [] type = "XENOPHOBIC"   /\ key = "diplomatic"    -> -300
      [] type = "XENOPHOBIC"   /\ key = "aggressive"    -> 200
      [] type = "RELIGIOUS"    /\ key = "diplomatic"    -> 200
      [] type = "RELIGIOUS"    /\ key = "expansionist"  -> 200
      [] type = "HIVE_MIND"    /\ key = "expansionist"  -> 300
      [] type = "HIVE_MIND"    /\ key = "diplomatic"    -> -200
      [] OTHER -> 0

\* Math.max(0, Math.min(1, v))
ClampTrait(v) == Max(0, Min(1000, v))

\* Mutant: the adjustment is added twice and the result is not clamped
generateTraitsTwiceUnclamped(type, base) ==
    [key \in TraitKeys |-> base[key] + 2 * Adjustment(type, key)]

\* generateTraits(type), given the five base values it drew
generateTraits(type, base) ==
    [key \in TraitKeys |-> ClampTrait(base[key] + Adjustment(type, key))]

TraitsStart ==
    /\ tType \in Range(FactionTypes)
    /\ tpc = "draw"
    /\ tTraits = [key \in TraitKeys |-> 0]

\* generateTraits is not running
TraitsIdle ==
    /\ tType = "none"
    /\ tpc = "idle"
    /\ tTraits = [key \in TraitKeys |-> 0]

\* Lines 76-82: the five base values are drawn
DrawBaseTraits ==
    /\ tpc = "draw"
    /\ \E draw \in [TraitKeys -> 0..TraitLevels] :
          tTraits' = [key \in TraitKeys |-> BaseTrait(draw[key], TraitLevels)]
    /\ tpc' = "adjust"
    /\ UNCHANGED <<tType, notTraitVars>>

\* Lines 85-121: archetype adjustment, clamping, return
AdjustAndClampTraits ==
    /\ tpc = "adjust"
    /\ tTraits' = generateTraits(tType, tTraits)
    /\ tpc' = "done"
    /\ UNCHANGED <<tType, notTraitVars>>

TraitsNext ==
    DrawBaseTraits \/ AdjustAndClampTraits

\* C8: every trait returned by generateTraits lies in [0, 1], for every
\* archetype and every base draw in [0.3, 0.7].
C8_TraitsInUnitInterval ==
    tpc = "done" => \A key \in TraitKeys : 0 <= tTraits[key] /\ tTraits[key] <= 1000

\* C8 witness: generateTraits returned a trait at the upper end of the range
\* and another at the lower end (largest base plus bonus, smallest minus malus).
C8_Witness ==
    /\ tpc = "done"
    /\ \E key \in TraitKeys : tTraits[key] = 1000
    /\ \E key \in TraitKeys : tTraits[key] = 0

-----------------------------------------------------------------------------
(* generateInitialFactions: inputs *)

\* Star ids (uuidv4 in the code): pairwise distinct
FactionStarIds == [i \in 1..(TargetDivisor * (ExpandTarget + 1) + 1) |-> <<"star", i>>]

\* Stars on a grid FactionGridWidth columns wide, `step` apart; the first is
\* the center
FactionGridWidth == 6

GridStars(n, step) ==
    [i \in 1..n |->
        [id |-> FactionStarIds[i],
         position |-> [x |-> ((i - 1) % FactionGridWidth) * step,
                       y |-> ((i - 1) \div FactionGridWidth) * step]]]

\* Grid steps: 70 puts neighbours within ADJACENT_DISTANCE, 400 puts every
\* star beyond MAX_EXPANSION_DISTANCE and BorderDistance of every other.
FactionSteps == {70, 400}

\* A list with just enough stars for three homes, and a list with targetSize = ExpandTarget
FactionStarCounts == {FactionCount + 1, TargetDivisor * ExpandTarget + 1}

FactionIds == <<"f1", "f2", "f3">>

\* A list with targetSize 3: the center, then the stars 2 to 5 close
\* together (70, 96 and about 98 apart along the chain 3 - 2 - 5 and 3 - 4,
\* the other pairs beyond MAX_EXPANSION_DISTANCE), then stars on a grid 400
\* apart, far from them
ClusterStars ==
    [i \in 1..(TargetDivisor * 3 + 1) |->
        [id |-> FactionStarIds[i],
         position |->
             IF i = 2 THEN [x |-> 100, y |-> 0]
             ELSE IF i = 3 THEN [x |-> 170, y |-> 0]
             ELSE IF i = 4 THEN [x |-> 266, y |-> 0]
             ELSE IF i = 5 THEN [x |-> 40, y |-> 77]
             ELSE [x |-> 1000 + 400 * (i % 6), y |-> 1000 + 400 * (i \div 6)]]]

\* Home systems (list positions) of the factions that expandFactionTerritory
\* is called with: in ClusterStars, three of the close stars and three of
\* the stars on the grid
ExpansionHomes == {2, 3, 4, 12, 16, 22}

\* The lists expandFactionTerritory is called with, both with targetSize 3:
\* the list with the close stars, and a grid 160 apart, on which territories
\* whose homes are more than 300 apart can grow to less than 300 apart
ExpansionLists == {ClusterStars, GridStars(TargetDivisor * 3 + 1, 160)}

\* The types of the three factions: the first two alike or not
ExpansionTypes ==
    { <<"CORPORATE", "CORPORATE", "MILITARISTIC">>,
      <<"CORPORATE", "SCIENTIFIC", "MILITARISTIC">> }

-----------------------------------------------------------------------------
(* generateInitialFactions and expandFactionTerritory: code *)

\* stars.find(s => s.id === id): the index of the first match, 0 for undefined
RECURSIVE FindStarFrom(_, _, _)
FindStarFrom(stars, id, i) ==
    IF i > Len(stars) THEN 0
    ELSE IF stars[i].id = id THEN i
    ELSE FindStarFrom(stars, id, i + 1)

FindStar(stars, id) == FindStarFrom(stars, id, 1)

\* The stars that stars.find yields for the ids of a controlledSystems set, in
\* its iteration order (ids without a star are skipped: if (controlledStar))
RECURSIVE FoundStars(_, _, _)
FoundStars(stars, controlled, i) ==
    IF i > Len(controlled) THEN <<>>
    ELSE LET c == FindStar(stars, controlled[i])
         IN  (IF c = 0 THEN <<>> ELSE <<c>>) \o FoundStars(stars, controlled, i + 1)

\* Math.floor((stars.length - 1) / 10)
TargetSize(stars) == (Len(stars) - 1) \div TargetDivisor

\* stars[Math.floor(Math.random() * (stars.length - 1)) + 1], as an index of
\* the model's 1-based sequence
CandidateIndex(k, stars) == RandomIndex(k, RandLevels, Len(stars) - 1) + 2

\* Lines 274-286: minDistanceToUsed of a candidate (squared)
MinDistanceToUsed(stars, used, candidate) ==
    LET ds == { Dist2(stars[candidate].position, stars[FindStar(stars, u)].position) :
                  u \in {v \in used : FindStar(stars, v) # 0} }
    IN  IF ds = {} THEN Infinity
        ELSE CHOOSE d \in ds : \A e \in ds : d <= e

\* As FartherFromUsed, with >= for >
FartherFromUsedOrEqual(minDistanceToUsed, maxMinDistance) ==
    minDistanceToUsed >= maxMinDistance

\* Line 288: minDistanceToUsed > maxMinDistance
FartherFromUsed(minDistanceToUsed, maxMinDistance) ==
    minDistanceToUsed > maxMinDistance

\* As FallbackRepeats, for a loop that stops at the first draw
FallbackRepeatsNever(stars, used, bestStar) == FALSE

\* Line 299: while (usedStars.has(bestStar.id))
FallbackRepeats(stars, used, bestStar) == stars[bestStar].id \in used

\* Floor of the square root of v, searched in lo..hi
RECURSIVE SqrtSearch(_, _, _)
SqrtSearch(v, lo, hi) ==
    IF lo >= hi THEN lo
    ELSE LET mid == (lo + hi + 1) \div 2
         IN  IF mid * mid <= v THEN SqrtSearch(v, mid, hi) ELSE SqrtSearch(v, lo, mid - 1)

\* Math.sqrt of a squared distance below MAX_EXPANSION_DISTANCE, in tenths of a unit
Sqrt10(d2) == SqrtSearch(100 * d2, 0, 10 * MAX_EXPANSION_DISTANCE)

\* distance < limit
Within(d2, limit) == d2 < limit * limit

\* Lines 159-186: the tallies of one unclaimed star against the controlled
\* stars (given as star indices; distances in tenths; minDistance stays
\* Infinity while nothing is nearby)
RECURSIVE Tally(_, _, _, _, _)
Tally(stars, controlledStars, star, i, acc) ==
    IF i > Len(controlledStars) THEN acc
    ELSE LET d2 == Dist2(stars[star].position, stars[controlledStars[i]].position)
             d == Sqrt10(d2)
         IN  IF Within(d2, MAX_EXPANSION_DISTANCE)
             THEN Tally(stars, controlledStars, star, i + 1,
                        [validStar |-> TRUE,
                         nearbyCount |-> acc.nearbyCount + 1,
                         totalDistance |-> acc.totalDistance + d,
                         minDistance |-> Min(acc.minDistance, d),
                         adjacentCount |-> acc.adjacentCount
                             + (IF Within(d2, ADJACENT_DISTANCE) THEN 1 ELSE 0)])
             ELSE Tally(stars, controlledStars, star, i + 1, acc)

StarTally(stars, controlledStars, star) ==
    Tally(stars, controlledStars, star, 1,
          [validStar |-> FALSE, nearbyCount |-> 0, totalDistance |-> 0,
           minDistance |-> Infinity, adjacentCount |-> 0])

\* Lines 195-199: the score in tenths, as the fraction num / den (den = nearbyCount)
\*   adjacentCount * 2000 + nearbyCount * 500 - avgDistance * 2 - minDistance * 3
Score(t) ==
    [num |-> (t.adjacentCount * 20000 + t.nearbyCount * 5000 - t.minDistance * 3)
                 * t.nearbyCount - t.totalDistance * 2,
     den |-> t.nearbyCount]

\* -Infinity as a score
NoScore == [num |-> 0, den |-> 0]

\* As ScoreGreater, with < for >
ScoreSmaller(score, bestScore) ==
    \/ bestScore.den = 0
    \/ score.num * bestScore.den < bestScore.num * score.den

\* score > bestScore
ScoreGreater(score, bestScore) ==
    \/ bestScore.den = 0
    \/ score.num * bestScore.den > bestScore.num * score.den

\* Lines 158-206: the scan of the unclaimed stars from position i on
RECURSIVE BestByScore(_, _, _, _, _, _)
BestByScore(stars, controlledStars, unclaimed, i, bestStar, bestScore) ==
    IF i > Len(unclaimed) THEN bestStar
    ELSE LET t == StarTally(stars, controlledStars, unclaimed[i])
             score == Score(t)
         IN  IF t.validStar /\ ScoreGreater(score, bestScore)
             THEN BestByScore(stars, controlledStars, unclaimed, i + 1, unclaimed[i], score)
             ELSE BestByScore(stars, controlledStars, unclaimed, i + 1, bestStar, bestScore)

\* bestStar after the scan: a star index, 0 for null
BestExpansionStar(stars, controlled, unclaimed) ==
    BestByScore(stars, FoundStars(stars, controlled, 1), unclaimed, 1, 0, NoScore)

\* Lines 218-228: count, centerX and centerY before the division by count
RECURSIVE CentroidLoop(_, _, _, _)
CentroidLoop(stars, controlledStars, i, acc) ==
    IF i > Len(controlledStars) THEN acc
    ELSE CentroidLoop(stars, controlledStars, i + 1,
                      [count |-> acc.count + 1,
                       sumX |-> acc.sumX + stars[controlledStars[i]].position.x,
                       sumY |-> acc.sumY + stars[controlledStars[i]].position.y])

\* As Centroid, without the division of centerX and centerY by count
CentroidUndivided(stars, controlled) ==
    [CentroidLoop(stars, FoundStars(stars, controlled, 1), 1,
                  [count |-> 0, sumX |-> 0, sumY |-> 0]) EXCEPT !.count = 1]

\* Lines 218-230: the territory center, centerX = sumX / count and
\* centerY = sumY / count
Centroid(stars, controlled) ==
    CentroidLoop(stars, FoundStars(stars, controlled, 1), 1,
                 [count |-> 0, sumX |-> 0, sumY |-> 0])

\* Lines 234-237: the distance of a star to the territory center, squared and
\* multiplied by count * count
CenterDist2(stars, c, star) ==
    LET dx == c.count * stars[star].position.x - c.sumX
        dy == c.count * stars[star].position.y - c.sumY
    IN  dx * dx + dy * dy

\* Lines 233-243: the scan for the unclaimed star closest to the center
RECURSIVE ClosestToCenter(_, _, _, _, _, _)
ClosestToCenter(stars, c, unclaimed, i, fallbackStar, shortestDistance) ==
    IF i > Len(unclaimed) THEN fallbackStar
    ELSE LET d == CenterDist2(stars, c, unclaimed[i])
         IN  IF d < shortestDistance
             THEN ClosestToCenter(stars, c, unclaimed, i + 1, unclaimed[i], d)
             ELSE ClosestToCenter(stars, c, unclaimed, i + 1, fallbackStar, shortestDistance)

\* As FallbackExpansionStar, for a loop without the fallback of lines 211-247
NoFallbackExpansionStar(stars, controlled, unclaimed) == 0

\* fallbackStar after the scan: a star index, 0 for null
FallbackExpansionStar(stars, controlled, unclaimed) ==
    ClosestToCenter(stars, Centroid(stars, controlled), unclaimed, 1, 0, Infinity)

\* The ids some faction of the list controls
ControlledBy(allFactions) ==
    UNION {Range(allFactions[f].controlledSystems) : f \in 1..Len(allFactions)}

\* As UnclaimedStars, filtering out only the expanding faction's own stars
UnclaimedStarsOwnOnly(stars, allFactions, faction) ==
    SelectSeq([i \in 1..Len(stars) |-> i],
              LAMBDA i : stars[i].id \notin Range(faction.controlledSystems))

\* Lines 144-146: the stars no faction controls, in the order of the list
UnclaimedStars(stars, allFactions, faction) ==
    LET claimed == ControlledBy(allFactions)
    IN  SelectSeq([i \in 1..Len(stars) |-> i], LAMBDA i : stars[i].id \notin claimed)

\* As ExpansionContinues, with <= for <
ExpansionContinuesInclusive(size, targetSize, unclaimedCount) ==
    size <= targetSize /\ unclaimedCount > 0

\* Line 153: the while condition
ExpansionContinues(size, targetSize, unclaimedCount) ==
    size < targetSize /\ unclaimedCount > 0

\* Set.delete: the sequence without the element
Without(seq, e) == SelectSeq(seq, LAMBDA x : x # e)

\* As SharedBorders, on the home systems alone
SharedBordersOfHomes(stars, faction, other) ==
    LET mine == FoundStars(stars, <<faction.homeSystemId>>, 1)
        theirs == FoundStars(stars, <<other.homeSystemId>>, 1)
    IN  \E a \in Range(mine) : \E b \in Range(theirs) :
            Within(Dist2(stars[a].position, stars[b].position), BorderDistance)

\* Lines 336-349: sharedBorders
SharedBorders(stars, faction, other) ==
    LET mine == FoundStars(stars, faction.controlledSystems, 1)
        theirs == FoundStars(stars, other.controlledSystems, 1)
    IN  \E a \in Range(mine) : \E b \in Range(theirs) :
            Within(Dist2(stars[a].position, stars[b].position), BorderDistance)

\* Math.max(-100, Math.min(100, v)), in thousandths
ClampRelation(v) == Max(-100000, Min(100000, v))

\* As RelationScore, without the clamp and with every weight tenfold
RelationScoreUnclampedTenfold(stars, faction, other) ==
    (faction.traits.diplomatic + other.traits.diplomatic) * 200
    - (faction.traits.aggressive + other.traits.aggressive) * 150
    + (IF faction.type = other.type THEN 200000 ELSE 0)
    - (IF SharedBorders(stars, faction, other) THEN 150000 ELSE 0)

\* As RelationScore, with the faction's own traits in place of the sums
RelationScoreOwnTraits(stars, faction, other) ==
    ClampRelation(
        (faction.traits.diplomatic + faction.traits.diplomatic) * 20
        - (faction.traits.aggressive + faction.traits.aggressive) * 15
        + (IF faction.type = other.type THEN 20000 ELSE 0)
        - (IF SharedBorders(stars, faction, other) THEN 15000 ELSE 0))

\* Lines 322-356: relationScore of faction towards otherFaction, in thousandths
RelationScore(stars, faction, other) ==
    ClampRelation(
        (faction.traits.diplomatic + other.traits.diplomatic) * 20
        - (faction.traits.aggressive + other.traits.aggressive) * 15
        + (IF faction.type = other.type THEN 20000 ELSE 0)
        - (IF SharedBorders(stars, faction, other) THEN 15000 ELSE 0))

\* As RelationTargets, without the test faction.id !== otherFaction.id
RelationTargetsWithSelf(all, f) == 1..Len(all)

\* Line 320: the factions a faction stores a score for
RelationTargets(all, f) == {g \in 1..Len(all) : all[g].id # all[f].id}

\* Lines 318-361: every faction's relations map
WithRelations(stars, all) ==
    [f \in 1..Len(all) |->
        [all[f] EXCEPT !.relations =
            [id \in {all[g].id : g \in RelationTargets(all, f)} |->
                RelationScore(stars, all[f],
                              all[CHOOSE g \in 1..Len(all) : all[g].id = id])]]]

\* Lines 124-141: generateFaction (name and color are not modelled)
generateFaction(id, type, base, homeSystem) ==
    [id |-> id,
     type |-> type,
     traits |-> generateTraits(type, base),
     homeSystemId |-> homeSystem.id,
     controlledSystems |-> <<homeSystem.id>>,
     relations |-> <<>>]

\* The five Math.random() * 0.4 + 0.3 draws of a faction's traits, restricted
\* to five equal draws, of 0.3 or of 0.6
UniformBases == {[key \in TraitKeys |-> BaseTrait(k, 4)] : k \in {0, 3}}

-----------------------------------------------------------------------------
(* generateInitialFactions: actions *)

\* Lines 255-271: entry with a generated star list, before the first attempt
FactionsStart ==
    /\ \E n \in FactionStarCounts : \E step \in FactionSteps : fStars = GridStars(n, step)
    /\ fpc = "pick"
    /\ fAttempt = 0
    /\ fBestStar = 0
    /\ fMaxMinDistance = NegInfinity
    /\ fCandidates = <<>>
    /\ usedStars = {}
    /\ factions = <<>>
    /\ fExpanding = 0
    /\ unclaimedStars = <<>>

\* generateInitialFactions is given a list with exactly three stars other
\* than the center: the third home is the last star left
ShortListStart ==
    /\ \E step \in FactionSteps : fStars = GridStars(FactionCount + 1, step)
    /\ fpc = "pick"
    /\ fAttempt = 0
    /\ fBestStar = 0
    /\ fMaxMinDistance = NegInfinity
    /\ fCandidates = <<>>
    /\ usedStars = {}
    /\ factions = <<>>
    /\ fExpanding = 0
    /\ unclaimedStars = <<>>

\* generateInitialFactions is given the list with the close stars
ClusterStart ==
    /\ fStars = ClusterStars
    /\ fpc = "pick"
    /\ fAttempt = 0
    /\ fBestStar = 0
    /\ fMaxMinDistance = NegInfinity
    /\ fCandidates = <<>>
    /\ usedStars = {}
    /\ factions = <<>>
    /\ fExpanding = 0
    /\ unclaimedStars = <<>>

\* Line 313: the home loop of generateInitialFactions is over, each of the
\* three factions controls its home system, three different stars other
\* than the center, and the first call of expandFactionTerritory is due
ExpansionStart ==
    /\ fStars \in ExpansionLists
    /\ fpc = "enter"
    /\ fAttempt = 0
    /\ fBestStar = 0
    /\ fMaxMinDistance = NegInfinity
    /\ fCandidates = <<>>
    /\ \E homes \in [1..FactionCount -> ExpansionHomes] : \E types \in ExpansionTypes :
          /\ \A f \in 1..FactionCount : \A g \in 1..FactionCount :
                f # g => homes[f] # homes[g]
          /\ usedStars = {fStars[homes[f]].id : f \in 1..FactionCount}
          /\ factions = [f \in 1..FactionCount |->
                            generateFaction(FactionIds[f], types[f],
                                            [key \in TraitKeys |-> BaseTrait(0, 1)],
                                            fStars[homes[f]])]
    /\ fExpanding = 1
    /\ unclaimedStars = <<>>

\* generateInitialFactions is not running
FactionsIdle ==
    /\ fStars = <<>>
    /\ fpc = "idle"
    /\ fAttempt = 0
    /\ fBestStar = 0
    /\ fMaxMinDistance = NegInfinity
    /\ fCandidates = <<>>
    /\ usedStars = {}
    /\ factions = <<>>
    /\ fExpanding = 0
    /\ unclaimedStars = <<>>

\* Lines 271-293: one attempt of the home search
TryCandidate ==
    /\ fpc = "pick"
    /\ fAttempt < HomeAttempts
    /\ \E k \in 0..(RandLevels - 1) :
          LET candidate == CandidateIndex(k, fStars)
              minDistanceToUsed == MinDistanceToUsed(fStars, usedStars, candidate)
          IN  /\ IF fStars[candidate].id \notin usedStars
                        /\ FartherFromUsed(minDistanceToUsed, fMaxMinDistance)
                 THEN fBestStar' = candidate /\ fMaxMinDistance' = minDistanceToUsed
                 ELSE UNCHANGED <<fBestStar, fMaxMinDistance>>
              /\ fCandidates' =
                    IF fStars[candidate].id \notin usedStars
                        /\ candidate \notin Range(fCandidates)
                    THEN Append(fCandidates, candidate)
                    ELSE fCandidates
    /\ fAttempt' = fAttempt + 1
    /\ UNCHANGED <<fStars, fpc, usedStars, factions, fExpanding, unclaimedStars, notFactionVars>>

\* Line 295, bestStar set: the search found a home
HomeFound ==
    /\ fpc = "pick"
    /\ fAttempt = HomeAttempts
    /\ fBestStar # 0
    /\ fpc' = "create"
    /\ UNCHANGED <<fStars, fAttempt, fBestStar, fMaxMinDistance, fCandidates,
                   usedStars, factions,
                   fExpanding, unclaimedStars, notFactionVars>>

\* Line 295, bestStar null: every attempt drew a used star
HomeNotFound ==
    /\ fpc = "pick"
    /\ fAttempt = HomeAttempts
    /\ fBestStar = 0
    /\ fpc' = "fallback"
    /\ UNCHANGED <<fStars, fAttempt, fBestStar, fMaxMinDistance, fCandidates,
                   usedStars, factions,
                   fExpanding, unclaimedStars, notFactionVars>>

\* Lines 297-299: one round of the do-while over random stars
FallbackDraw ==
    /\ fpc = "fallback"
    /\ \E k \in 0..(RandLevels - 1) :
          /\ fBestStar' = CandidateIndex(k, fStars)
          /\ fpc' = IF FallbackRepeats(fStars, usedStars, CandidateIndex(k, fStars))
                    THEN "fallback" ELSE "create"
    /\ UNCHANGED <<fStars, fAttempt, fMaxMinDistance, fCandidates, usedStars, factions,
                   fExpanding, unclaimedStars, notFactionVars>>

\* Lines 302-310: the home is used, the faction is generated and pushed
CreateFaction ==
    /\ fpc = "create"
    /\ usedStars' = usedStars \cup {fStars[fBestStar].id}
    /\ \E kt \in 0..(TypeLevels - 1) : \E base \in UniformBases :
          factions' = Append(factions,
              generateFaction(FactionIds[Len(factions) + 1],
                              FactionTypes[RandomIndex(kt, TypeLevels, Len(FactionTypes)) + 1],
                              base,
                              fStars[fBestStar]))
    /\ fAttempt' = 0
    /\ fBestStar' = 0
    /\ fMaxMinDistance' = NegInfinity
    /\ fCandidates' = <<>>
    /\ IF Len(factions) + 1 < FactionCount
       THEN fpc' = "pick" /\ fExpanding' = fExpanding
       ELSE fpc' = "enter" /\ fExpanding' = 1
    /\ UNCHANGED <<fStars, unclaimedStars, notFactionVars>>

\* Lines 143-151: expandFactionTerritory is called for the next faction
EnterExpansion ==
    /\ fpc = "enter"
    /\ unclaimedStars' = UnclaimedStars(fStars, factions, factions[fExpanding])
    /\ fpc' = "expand"
    /\ UNCHANGED <<fStars, fAttempt, fBestStar, fMaxMinDistance, fCandidates,
                   usedStars, factions,
                   fExpanding, notFactionVars>>

\* Lines 208-210 and 245-247: controlledSystems.add and unclaimedStars.delete
Claim(star) ==
    /\ factions' = [factions EXCEPT ![fExpanding].controlledSystems =
                       IF fStars[star].id \in Range(@) THEN @ ELSE Append(@, fStars[star].id)]
    /\ unclaimedStars' = Without(unclaimedStars, star)
    /\ UNCHANGED <<fpc, fExpanding>>

\* expandFactionTerritory returns: the forEach of line 313 goes on, or is over
LeaveExpansion ==
    /\ IF fExpanding < Len(factions)
       THEN fExpanding' = fExpanding + 1 /\ fpc' = "enter"
       ELSE fExpanding' = fExpanding /\ fpc' = "relations"
    /\ UNCHANGED <<factions, unclaimedStars>>

\* Lines 144, 210 and 247: delete runs on unclaimedStars, the Set made from
\* the array stars.filter(...) returned; stars, the array filter read, keeps
\* its elements and their order (star is 0 when no star was deleted)
StarsAfterDelete(stars, star) == stars

\* Lines 153-251: one round of the while loop: the best star by score is
\* claimed, else the unclaimed star closest to the territory center, else break
ExpandRound ==
    /\ fpc = "expand"
    /\ ExpansionContinues(Len(factions[fExpanding].controlledSystems),
                          TargetSize(fStars), Len(unclaimedStars))
    /\ LET bestStar == BestExpansionStar(fStars, factions[fExpanding].controlledSystems,
                                         unclaimedStars)
           fallbackStar == FallbackExpansionStar(fStars,
                                factions[fExpanding].controlledSystems, unclaimedStars)
       IN  /\ IF bestStar # 0 THEN Claim(bestStar)
              ELSE IF fallbackStar # 0 THEN Claim(fallbackStar)
              ELSE LeaveExpansion
           /\ fStars' = StarsAfterDelete(fStars, IF bestStar # 0 THEN bestStar
                                                 ELSE fallbackStar)
    /\ UNCHANGED <<fAttempt, fBestStar, fMaxMinDistance, fCandidates, usedStars,
                   notFactionVars>>

\* Line 153: the while condition fails
EndExpansion ==
    /\ fpc = "expand"
    /\ ~ExpansionContinues(Len(factions[fExpanding].controlledSystems),
                           TargetSize(fStars), Len(unclaimedStars))
    /\ LeaveExpansion
    /\ UNCHANGED <<fStars, fAttempt, fBestStar, fMaxMinDistance, fCandidates, usedStars,
                   notFactionVars>>

\* Lines 318-363: the relations of every faction, then return
ComputeRelations ==
    /\ fpc = "relations"
    /\ factions' = WithRelations(fStars, factions)
    /\ fpc' = "done"
    /\ UNCHANGED <<fStars, fAttempt, fBestStar, fMaxMinDistance, fCandidates, usedStars,
                   fExpanding, unclaimedStars, notFactionVars>>

\* Lines 265-310 alone: the loop that chooses the homes and makes the factions
HomesNext ==
    \/ TryCandidate
    \/ HomeFound
    \/ HomeNotFound
    \/ FallbackDraw
    \/ CreateFaction

\* Lines 313-363 alone: the three expansions and the relations
ExpansionNext ==
    \/ EnterExpansion
    \/ ExpandRound
    \/ EndExpansion
    \/ ComputeRelations

FactionsNext ==
    \/ TryCandidate
    \/ HomeFound
    \/ HomeNotFound
    \/ FallbackDraw
    \/ CreateFaction
    \/ EnterExpansion
    \/ ExpandRound
    \/ EndExpansion
    \/ ComputeRelations

-----------------------------------------------------------------------------
(* generateInitialFactions: properties *)

FactionIndices == 1..Len(factions)

ControlledOf(f) == Range(factions[f].controlledSystems)

FactionStarIdSet == {fStars[i].id : i \in 1..Len(fStars)}

\* Some star of faction f is closer than the limit to some star of faction g
Near(f, g, limit) ==
    \E a \in ControlledOf(f) : \E b \in ControlledOf(g) :
        Within(Dist2(fStars[FindStar(fStars, a)].position,
                     fStars[FindStar(fStars, b)].position), limit)

\* C3: at every point of generateInitialFactions (after every home is taken,
\* after every claim of the expansion, and on return) no star id is in the
\* controlledSystems of two different factions, and no faction controls
\* another faction's home star.
C3_TerritoriesDisjoint ==
    \A f \in FactionIndices : \A g \in FactionIndices :
        f # g =>
            /\ ControlledOf(f) \cap ControlledOf(g) = {}
            /\ factions[g].homeSystemId \notin ControlledOf(f)

\* A faction has expanded although another faction's star was within
\* expansion range of its territory
C3_Witness ==
    /\ fpc = "done"
    /\ \E f \in FactionIndices : \E g \in FactionIndices :
          /\ f < g
          /\ Len(factions[f].controlledSystems) >= 2
          /\ Near(f, g, MAX_EXPANSION_DISTANCE)

\* C4 as stated: every returned faction has controlledSystems.size <= targetSize
C4_SizeAtMostTarget ==
    fpc = "done" =>
        \A f \in FactionIndices :
            Len(factions[f].controlledSystems) <= TargetSize(fStars)

\* C4 (amended): every returned faction has
\* controlledSystems.size <= max(1, targetSize): the home system is controlled
\* even when targetSize is 0.
C4_SizeAtMostTargetOrHome ==
    fpc = "done" =>
        \A f \in FactionIndices :
            Len(factions[f].controlledSystems) <= Max(1, TargetSize(fStars))

\* A returned faction has expanded up to a targetSize above 1
C4_Witness ==
    /\ fpc = "done"
    /\ TargetSize(fStars) >= 2
    /\ \E f \in FactionIndices : Len(factions[f].controlledSystems) = TargetSize(fStars)

C9_RelationsInRange ==
    \A f \in FactionIndices :
        \A id \in DOMAIN factions[f].relations :
            /\ factions[f].relations[id] >= -100000
            /\ factions[f].relations[id] <= 100000

\* Scores are stored, one of them with the same-type bonus and one with the
\* border penalty
C9_Witness ==
    /\ fpc = "done"
    /\ \E f \in FactionIndices : \E g \in FactionIndices :
          /\ f # g
          /\ factions[f].type = factions[g].type
          /\ factions[g].id \in DOMAIN factions[f].relations
    /\ \E f \in FactionIndices : \E g \in FactionIndices :
          /\ f # g
          /\ Near(f, g, BorderDistance)
          /\ factions[g].id \in DOMAIN factions[f].relations

\* C10: for any two distinct returned factions A and B, the score A stores
\* for B equals the score B stores for A.
C10_RelationsSymmetric ==
    fpc = "done" =>
        \A f \in FactionIndices : \A g \in FactionIndices :
            f # g => factions[f].relations[factions[g].id]
                       = factions[g].relations[factions[f].id]

\* Two returned factions of different types and different traits store
\* scores for each other
C10_Witness ==
    /\ fpc = "done"
    /\ \E f \in FactionIndices : \E g \in FactionIndices :
          /\ f # g
          /\ factions[f].type # factions[g].type
          /\ factions[f].traits.diplomatic # factions[g].traits.diplomatic
          /\ factions[f].traits.aggressive # factions[g].traits.aggressive
          /\ factions[g].id \in DOMAIN factions[f].relations
          /\ factions[f].id \in DOMAIN factions[g].relations

-----------------------------------------------------------------------------
(* selectStartingSystem: inputs *)

\* What a system of the input is like: its star's type and the lengths of its
\* planets and resources arrays (the only parts of them the code reads).
SystemKinds ==
    { [type |-> "YELLOW_DWARF", planets |-> 3, resources |-> 2],
      [type |-> "RED_GIANT",    planets |-> 4, resources |-> 2],
      [type |-> "RED_DWARF",    planets |-> 1, resources |-> 1],
      [type |-> "NEUTRON",      planets |-> 2, resources |-> 1],
      [type |-> "PULSAR",       planets |-> 4, resources |-> 3],
      [type |-> "BLACK_HOLE",   planets |-> 1, resources |-> 1] }

\* Distance between consecutive stars of the input, which lie on a line
StartSteps == {100, 250, 350}

SystemIds == <<"y1", "y2", "y3", "y4", "y5", "y6", "y7", "y8", "y9">>

\* The systems array for the given kinds, spaced `step` apart
SystemsOf(kinds, step) ==
    [i \in 1..Len(kinds) |->
        [id |-> SystemIds[i],
         star |-> [id |-> StarIds[i],
                   position |-> [x |-> (i - 1) * step, y |-> 0],
                   type |-> kinds[i].type],
         planets |-> kinds[i].planets,
         resources |-> kinds[i].resources]]

\* The kinds of the long arrays: ordinary star types, two with at least 2
\* planets and different scores, one with 1 planet
RankedKinds == {kind \in SystemKinds : kind.type \in {"YELLOW_DWARF", "RED_GIANT", "RED_DWARF"}}

\* Two factions; owner[i] is the faction controlling star i (0: none)
FactionsOf(owner) ==
    [f \in 1..2 |->
        [controlledSystems |-> {StarIds[i] : i \in {k \in DOMAIN owner : owner[k] = f}}]]

-----------------------------------------------------------------------------
(* selectStartingSystem: code *)

\* star.type is BLACK_HOLE, NEUTRON or PULSAR
IsExotic(system) == system.star.type \in {"BLACK_HOLE", "NEUTRON", "PULSAR"}

\* systems.find(s => s.star.id === controlledId): its index, 0 for undefined
FindSystem(systems, controlledId) ==
    IF \E i \in 1..Len(systems) : systems[i].star.id = controlledId
    THEN CHOOSE i \in 1..Len(systems) :
            /\ systems[i].star.id = controlledId
            /\ \A j \in 1..(i - 1) : systems[j].star.id # controlledId
    ELSE 0

\* As FactionDistances, leaving out the distance of a controlled system to itself
FactionDistancesToOthers(systems, factionList, system) ==
    { Dist2(system.star.position, systems[FindSystem(systems, cid)].star.position) :
        cid \in { c \in UNION {factionList[f].controlledSystems : f \in 1..Len(factionList)} :
                    FindSystem(systems, c) # 0 /\ c # system.star.id } }

\* Squared distances from a system to the systems the factions control
FactionDistances(systems, factionList, system) ==
    { Dist2(system.star.position, systems[FindSystem(systems, cid)].star.position) :
        cid \in { c \in UNION {factionList[f].controlledSystems : f \in 1..Len(factionList)} :
                    FindSystem(systems, c) # 0 } }

\* Some faction-controlled system is at distance < MIN_DISTANCE_FROM_FACTIONS * num / den
TooClose(systems, factionList, system, num, den) ==
    \E d2 \in FactionDistances(systems, factionList, system) :
        d2 * den * den < (MIN_DISTANCE_FROM_FACTIONS * num) * (MIN_DISTANCE_FROM_FACTIONS * num)

\* Mutant: the strict tier forgets the planet count
PassesStrictAnyPlanets(systems, factionList, system) ==
    /\ ~IsExotic(system)
    /\ ~TooClose(systems, factionList, system, 1, 1)

\* Lines 8-38: the strict tier's filter predicate
PassesStrict(systems, factionList, system) ==
    /\ ~IsExotic(system)
    /\ ~(system.planets < MinPlanets)
    /\ ~TooClose(systems, factionList, system, 1, 1)

\* As PassesRelaxed, with the factor 0.5 for 0.75
PassesRelaxedByHalf(systems, factionList, system) ==
    /\ ~IsExotic(system)
    /\ ~TooClose(systems, factionList, system, 1, 2)

\* Lines 57-81: the relaxed tier's filter predicate
PassesRelaxed(systems, factionList, system) ==
    /\ ~IsExotic(system)
    /\ ~TooClose(systems, factionList, system, RelaxNum, RelaxDen)

\* planets.length * 2 + resources.length
Desirability(system) == system.planets * 2 + system.resources

\* Array.prototype.sort((a, b) => scoreB - scoreA): stable, descending score
RECURSIVE InsertByScore(_, _)
InsertByScore(sorted, e) ==
    IF sorted = <<>> THEN <<e>>
    ELSE IF Desirability(sorted[Len(sorted)]) >= Desirability(e)
         THEN Append(sorted, e)
         ELSE Append(InsertByScore(SubSeq(sorted, 1, Len(sorted) - 1), e),
                     sorted[Len(sorted)])

RECURSIVE SortByScore(_)
SortByScore(s) ==
    IF s = <<>> THEN <<>>
    ELSE InsertByScore(SortByScore(SubSeq(s, 1, Len(s) - 1)), s[Len(s)])

\* systems.filter(pred), keeping the array order
RECURSIVE FilterSystems(_, _, _, _)
FilterSystems(systems, factionList, Pred(_, _, _), i) ==
    IF i > Len(systems) THEN <<>>
    ELSE (IF Pred(systems, factionList, systems[i]) THEN <<systems[i]>> ELSE <<>>)
         \o FilterSystems(systems, factionList, Pred, i + 1)

\* Lines 8-45: sortedSystems
StrictCandidates(systems, factionList) ==
    SortByScore(FilterSystems(systems, factionList, PassesStrict, 1))

\* Lines 57-81: backupSystems
RelaxedCandidates(systems, factionList) ==
    FilterSystems(systems, factionList, PassesRelaxed, 1)

\* Lines 100-112: minDistance of a system (Infinity with no controlled system found)
MinFactionDistance(systems, factionList, system) ==
    LET ds == FactionDistances(systems, factionList, system)
    IN  IF ds = {} THEN Infinity
        ELSE CHOOSE d \in ds : \A e \in ds : d <= e

\* Lines 93-118: the loop from system i on, with bestSystem and maxMinDistance
RECURSIVE FallbackLoop(_, _, _, _, _)
FallbackLoop(systems, factionList, i, bestSystem, maxMinDistance) ==
    IF i > Len(systems) THEN bestSystem
    ELSE IF IsExotic(systems[i])
         THEN FallbackLoop(systems, factionList, i + 1, bestSystem, maxMinDistance)
         ELSE LET minDistance == MinFactionDistance(systems, factionList, systems[i])
              IN  IF minDistance > maxMinDistance
                  THEN FallbackLoop(systems, factionList, i + 1, systems[i], minDistance)
                  ELSE FallbackLoop(systems, factionList, i + 1, bestSystem, maxMinDistance)

\* Mutant: the last resort does not skip the exotic star types
RECURSIVE FallbackLoopAnyType(_, _, _, _, _)
FallbackLoopAnyType(systems, factionList, i, bestSystem, maxMinDistance) ==
    IF i > Len(systems) THEN bestSystem
    ELSE LET minDistance == MinFactionDistance(systems, factionList, systems[i])
         IN  IF minDistance > maxMinDistance
             THEN FallbackLoopAnyType(systems, factionList, i + 1, systems[i], minDistance)
             ELSE FallbackLoopAnyType(systems, factionList, i + 1, bestSystem, maxMinDistance)

FallbackSystemAnyType(systems, factionList) ==
    FallbackLoopAnyType(systems, factionList, 1, systems[1], NegInfinity)

\* As FallbackLoop, with minDistance >= maxMinDistance for >
RECURSIVE FallbackLoopLastOnTies(_, _, _, _, _)
FallbackLoopLastOnTies(systems, factionList, i, bestSystem, maxMinDistance) ==
    IF i > Len(systems) THEN bestSystem
    ELSE IF IsExotic(systems[i])
         THEN FallbackLoopLastOnTies(systems, factionList, i + 1, bestSystem, maxMinDistance)
         ELSE LET minDistance == MinFactionDistance(systems, factionList, systems[i])
              IN  IF minDistance >= maxMinDistance
                  THEN FallbackLoopLastOnTies(systems, factionList, i + 1, systems[i],
                                              minDistance)
                  ELSE FallbackLoopLastOnTies(systems, factionList, i + 1, bestSystem,
                                              maxMinDistance)

FallbackSystemLastOnTies(systems, factionList) ==
    FallbackLoopLastOnTies(systems, factionList, 1, systems[1], NegInfinity)

\* Lines 90-120: the last resort
FallbackSystem(systems, factionList) ==
    FallbackLoop(systems, factionList, 1, systems[1], NegInfinity)

NoSystem == [id |-> "none"]

StartStart ==
    /\ \E n \in 1..MaxSystems : \E kinds \in [1..n -> SystemKinds] :
       \E step \in StartSteps : \E owner \in [1..n -> 0..2] :
          /\ sSystems = SystemsOf(kinds, step)
          /\ sFactions = FactionsOf(owner)
    /\ spc = "start"
    /\ sCandidates = <<>>
    /\ sTier = "none"
    /\ sResult = NoSystem

\* selectStartingSystem is given an array of systems 250 apart: next to a
\* controlled system the neighbour passes the relaxed distance only
WideArrayStart ==
    /\ \E n \in 1..MaxSystems : \E kinds \in [1..n -> SystemKinds] :
       \E owner \in [1..n -> 0..2] :
          /\ sSystems = SystemsOf(kinds, 250)
          /\ sFactions = FactionsOf(owner)
    /\ spc = "start"
    /\ sCandidates = <<>>
    /\ sTier = "none"
    /\ sResult = NoSystem

\* selectStartingSystem is given an array of more than 5 systems, 350 apart,
\* the first of them controlled by a faction or by none
RankingStart ==
    /\ \E n \in (TopCount + 1)..MaxRankedSystems : \E kinds \in [1..n -> RankedKinds] :
       \E first \in 0..1 :
          /\ sSystems = SystemsOf(kinds, 350)
          /\ sFactions = FactionsOf([i \in 1..n |-> IF i = 1 THEN first ELSE 0])
    /\ spc = "start"
    /\ sCandidates = <<>>
    /\ sTier = "none"
    /\ sResult = NoSystem

\* selectStartingSystem is not running
StartIdle ==
    /\ sSystems = <<>>
    /\ sFactions = <<>>
    /\ spc = "idle"
    /\ sCandidates = <<>>
    /\ sTier = "none"
    /\ sResult = NoSystem

\* As SystemsAfterSort, with the sort run on systems itself
SystemsSortedInPlace(systems) == SortByScore(systems)

\* Lines 8 and 41: sort runs in place on potentialSystems, the array filter
\* returned; systems, the array filter read, keeps its elements and order
SystemsAfterSort(systems) == systems

\* As TopSystems, without the slice
TopSystemsAll(sortedSystems) == sortedSystems

\* Line 49: sortedSystems.slice(0, Math.min(5, sortedSystems.length))
TopSystems(sortedSystems) ==
    SubSeq(sortedSystems, 1, Min(TopCount, Len(sortedSystems)))

\* Lines 8-45: filter and rank the strict candidates
StrictFilter ==
    /\ spc = "start"
    /\ sCandidates' = StrictCandidates(sSystems, sFactions)
    /\ sSystems' = SystemsAfterSort(sSystems)
    /\ spc' = "strict"
    /\ UNCHANGED <<sFactions, sTier, sResult, notStartVars>>

\* Lines 48-51: one of the top 5 is returned
StrictPick ==
    /\ spc = "strict"
    /\ Len(sCandidates) > 0
    /\ \E k \in 0..(PickLevels - 1) :
          LET topSystems == TopSystems(sCandidates)
          IN  sResult' = topSystems[RandomIndex(k, PickLevels, Len(topSystems)) + 1]
    /\ sTier' = "strict"
    /\ spc' = "done"
    /\ UNCHANGED <<sSystems, sFactions, sCandidates, notStartVars>>

\* Lines 53-81: no strict candidate; filter the relaxed candidates
RelaxedFilter ==
    /\ spc = "strict"
    /\ Len(sCandidates) = 0
    /\ sCandidates' = RelaxedCandidates(sSystems, sFactions)
    /\ spc' = "relaxed"
    /\ UNCHANGED <<sSystems, sFactions, sTier, sResult, notStartVars>>

\* Lines 83-85: a random relaxed candidate is returned
RelaxedPick ==
    /\ spc = "relaxed"
    /\ Len(sCandidates) > 0
    /\ \E k \in 0..(PickLevels - 1) :
          sResult' = sCandidates[RandomIndex(k, PickLevels, Len(sCandidates)) + 1]
    /\ sTier' = "relaxed"
    /\ spc' = "done"
    /\ UNCHANGED <<sSystems, sFactions, sCandidates, notStartVars>>

\* Lines 87-120: no relaxed candidate; the farthest non-exotic system is returned
FallbackPick ==
    /\ spc = "relaxed"
    /\ Len(sCandidates) = 0
    /\ sResult' = FallbackSystem(sSystems, sFactions)
    /\ sTier' = "fallback"
    /\ spc' = "done"
    /\ UNCHANGED <<sSystems, sFactions, sCandidates, notStartVars>>

\* Lines 8-51 alone: the strict tier
RankingNext == StrictFilter \/ StrictPick

StartNext ==
    StrictFilter \/ StrictPick \/ RelaxedFilter \/ RelaxedPick \/ FallbackPick

-----------------------------------------------------------------------------
(* Properties of selectStartingSystem *)

ExoticTypes == {"BLACK_HOLE", "NEUTRON", "PULSAR"}

\* Star ids controlled by some faction of the input
ControlledIds == UNION {sFactions[f].controlledSystems : f \in 1..Len(sFactions)}

\* The strict conditions, stated on the input: ordinary star type, at least 2
\* planets, at least 300 units from every system a faction controls.
MeetsStrictConditions(system) ==
    /\ system.star.type \notin ExoticTypes
    /\ system.planets >= 2
    /\ \A i \in 1..Len(sSystems) :
          sSystems[i].star.id \in ControlledIds =>
              Dist2(system.star.position, sSystems[i].star.position) >= 300 * 300

\* C6: with at least one system of ordinary star type in a non-empty input,
\* selectStartingSystem returns an element of the input whose star type is
\* none of BLACK_HOLE, NEUTRON, PULSAR, whichever tier produced it.
C6_ResultIsOrdinaryInputSystem ==
    (spc = "done" /\ \E i \in 1..Len(sSystems) : sSystems[i].star.type \notin ExoticTypes)
        => /\ \E i \in 1..Len(sSystems) : sResult = sSystems[i]
           /\ sResult.star.type \notin ExoticTypes

\* C6 witness: the fallback tier returned an ordinary system although the
\* first system of the input (the loop's initial bestSystem) is exotic.
C6_Witness ==
    /\ spc = "done"
    /\ sTier = "fallback"
    /\ sSystems[1].star.type \in ExoticTypes
    /\ sResult.star.type \notin ExoticTypes

\* C7: if some system meets all strict conditions, the returned system meets
\* them too and comes from the strict tier.
C7_StrictCandidateWins ==
    (spc = "done" /\ \E i \in 1..Len(sSystems) : MeetsStrictConditions(sSystems[i]))
        => /\ sTier = "strict"
           /\ MeetsStrictConditions(sResult)

\* C7 witness: the strict tier returned a system while a faction controls a
\* system and some ordinary system of the input fails the strict conditions.
C7_Witness ==
    /\ spc = "done"
    /\ sTier = "strict"
    /\ ControlledIds # {}
    /\ \E i \in 1..Len(sSystems) :
          /\ sSystems[i].star.type \notin ExoticTypes
          /\ ~MeetsStrictConditions(sSystems[i])

\* The squared distances of a system to the systems of the input that some
\* faction controls
ControlledDistances(system) ==
    {Dist2(system.star.position, sSystems[i].star.position) :
        i \in {k \in 1..Len(sSystems) : sSystems[k].star.id \in ControlledIds}}

\* C24: when selectStartingSystem returns from the relaxed tier, no system of
\* the input meets the strict conditions, and the returned system is a system
\* of the input whose star type is none of BLACK_HOLE, NEUTRON, PULSAR and
\* which is at a distance of at least 225 from every system a faction
\* controls (its planet count is free: see the witness).
C24_RelaxedTierResult ==
    (spc = "done" /\ sTier = "relaxed") =>
        /\ \A i \in 1..Len(sSystems) : ~MeetsStrictConditions(sSystems[i])
        /\ \E i \in 1..Len(sSystems) : sResult = sSystems[i]
        /\ sResult.star.type \notin ExoticTypes
        /\ \A d2 \in ControlledDistances(sResult) : d2 >= 225 * 225

\* The relaxed tier returned a system with fewer than 2 planets that is less
\* than 300 away from a system a faction controls
C24_Witness ==
    /\ spc = "done"
    /\ sTier = "relaxed"
    /\ sResult.planets < 2
    /\ \E d2 \in ControlledDistances(sResult) : d2 < 300 * 300

\* The systems (array positions) of ordinary star type
OrdinarySystems == {i \in 1..Len(sSystems) : sSystems[i].star.type \notin ExoticTypes}

\* The minimum distance of system a to a faction-controlled system is at
\* least that of system b (with no controlled system the minimum is infinite)
NoCloserToFactions(a, b) ==
    \A d2 \in ControlledDistances(sSystems[a]) :
        \E other \in ControlledDistances(sSystems[b]) : other <= d2

\* System j is the first, in input order, of the ordinary systems with the
\* greatest minimum distance to a faction-controlled system
FirstFarthestOrdinary(j) ==
    /\ j \in OrdinarySystems
    /\ \A i \in OrdinarySystems : NoCloserToFactions(j, i)
    /\ \A i \in OrdinarySystems : i < j => ~NoCloserToFactions(i, j)

\* C25 as stated: whenever selectStartingSystem returns from the last tier,
\* the result is the first, in input order, of the ordinary systems with the
\* greatest minimum distance to a faction-controlled system (a function of
\* the inputs, so two calls with the same inputs return the same system).
C25_FallbackReturnsFarthestOrdinary ==
    (spc = "done" /\ sTier = "fallback") =>
        \E j \in 1..Len(sSystems) : sResult = sSystems[j] /\ FirstFarthestOrdinary(j)

\* C25 (amended): whenever selectStartingSystem returns from the last tier
\* and the input has a system of ordinary star type, the result is the
\* first, in input order, of the ordinary systems with the greatest minimum
\* distance to a faction-controlled system; when every system of the input
\* is a BLACK_HOLE, NEUTRON or PULSAR system, the result is the first system
\* of the input. Either way the result is a function of the inputs.
C25_FallbackReturnsFarthestOrdinaryOrFirst ==
    (spc = "done" /\ sTier = "fallback") =>
        IF OrdinarySystems # {}
        THEN \E j \in 1..Len(sSystems) : sResult = sSystems[j] /\ FirstFarthestOrdinary(j)
        ELSE sResult = sSystems[1]

\* The last tier returned an ordinary system that is not the first ordinary
\* system of the input, and farther from the factions than that one
C25_Witness ==
    /\ spc = "done"
    /\ sTier = "fallback"
    /\ \E i \in OrdinarySystems : \E j \in OrdinarySystems :
          /\ i < j
          /\ sResult = sSystems[j]
          /\ ~NoCloserToFactions(i, j)

\* 2 x planets.length + resources.length
RankScore(system) == 2 * system.planets + system.resources

\* The systems (array positions) that pass the strict tier
StrictSurvivors == {i \in 1..Len(sSystems) : MeetsStrictConditions(sSystems[i])}

\* C26: when the strict tier yields the result, the result is a strict
\* survivor that stands at one of the first 5 places of the survivors sorted
\* by descending score 2 x planets.length + resources.length (sortedSystems
\* is so sorted and holds the survivors), and fewer than 5 strict survivors
\* have a strictly higher score.
C26_ResultAmongTopFive ==
    (spc = "done" /\ sTier = "strict") =>
        /\ \A p \in 1..(Len(sCandidates) - 1) :
              RankScore(sCandidates[p]) >= RankScore(sCandidates[p + 1])
        /\ Range(sCandidates) = {sSystems[i] : i \in StrictSurvivors}
        /\ \E p \in 1..5 : p <= Len(sCandidates) /\ sResult = sCandidates[p]
        /\ Cardinality({i \in StrictSurvivors :
                            RankScore(sSystems[i]) > RankScore(sResult)}) < 5

\* The strict tier had more than 5 survivors, returned the fifth of the
\* ranking and left out a survivor of lower score that stands before the
\* result in the input
C26_Witness ==
    /\ spc = "done"
    /\ sTier = "strict"
    /\ Len(sCandidates) > 5
    /\ sResult = sCandidates[5]
    /\ \E i \in StrictSurvivors : \E j \in StrictSurvivors :
          /\ i < j
          /\ sSystems[j] = sResult
          /\ RankScore(sSystems[i]) < RankScore(sResult)

-----------------------------------------------------------------------------
(* expandFactionTerritory: the star that is claimed *)

\* The stars (list positions) the expanding faction controls
ExpandingControlled ==
    {i \in 1..Len(fStars) : fStars[i].id \in Range(factions[fExpanding].controlledSystems)}

\* The distance of two stars in tenths of a unit, rounded down
Tenths(a, b) == SqrtSearch(100 * Dist2(fStars[a].position, fStars[b].position), 0, 50000)

\* The controlled stars at a distance below the limit from star u
ControlledWithin(u, limit) ==
    {c \in ExpandingControlled :
        Dist2(fStars[u].position, fStars[c].position) < limit * limit}

\* The unclaimed stars with a controlled star within 150
ExpansionCandidates == {u \in Range(unclaimedStars) : ControlledWithin(u, 150) # {}}

RECURSIVE TenthsSum(_, _)
TenthsSum(u, cs) ==
    IF cs = {} THEN 0
    ELSE LET c == CHOOSE x \in cs : TRUE
         IN  Tenths(u, c) + TenthsSum(u, cs \ {c})

\* 2000 x adjacentCount + 500 x nearbyCount - 2 x avgDistance - 3 x minDistance
\* of candidate u in tenths, as a fraction, the average being taken over the
\* controlled stars cs
ClaimScore(u, cs) ==
    LET minDistance == CHOOSE d \in {Tenths(u, c) : c \in ExpandingControlled} :
                           \A c \in ExpandingControlled : d <= Tenths(u, c)
    IN  [num |-> (20000 * Cardinality(ControlledWithin(u, 100))
                  + 5000 * Cardinality(ControlledWithin(u, 150))
                  - 3 * minDistance) * Cardinality(cs)
                 - 2 * TenthsSum(u, cs),
         den |-> Cardinality(cs)]

\* a >= b for fractions with positive denominators
AtLeast(a, b) == a.num * b.den >= b.num * a.den

\* The star the step has claimed
ClaimedStar ==
    CHOOSE i \in 1..Len(fStars) :
        /\ fStars[i].id \in Range(factions'[fExpanding].controlledSystems)
        /\ fStars[i].id \notin Range(factions[fExpanding].controlledSystems)

\* A round of the expansion loop that starts with a candidate in reach
ExpansionStepWithCandidate ==
    /\ fpc = "expand"
    /\ factions' # factions
    /\ ExpansionCandidates # {}

-----------------------------------------------------------------------------
(* expandFactionTerritory: the fallback to the territory center *)

\* The sum of a coordinate over a set of stars
RECURSIVE SumX(_)
SumX(cs) ==
    IF cs = {} THEN 0
    ELSE LET c == CHOOSE x \in cs : TRUE
         IN  fStars[c].position.x + SumX(cs \ {c})

RECURSIVE SumY(_)
SumY(cs) ==
    IF cs = {} THEN 0
    ELSE LET c == CHOOSE x \in cs : TRUE
         IN  fStars[c].position.y + SumY(cs \ {c})

\* The squared distance of star u to the mean position of the controlled
\* stars, multiplied by the square of their number
CentroidDistance2(u) ==
    LET n == Cardinality(ExpandingControlled)
        dx == n * fStars[u].position.x - SumX(ExpandingControlled)
        dy == n * fStars[u].position.y - SumY(ExpandingControlled)
    IN  dx * dx + dy * dy

\* The loop of expandFactionTerritory is at its condition, the faction is
\* below the target size and an unclaimed star remains
ExpansionDue ==
    /\ fpc = "expand"
    /\ Len(factions[fExpanding].controlledSystems) < (Len(fStars) - 1) \div 10
    /\ unclaimedStars # <<>>

\* The ids the step has added to the expanding faction's controlledSystems
ClaimedIds ==
    Range(factions'[fExpanding].controlledSystems)
        \ Range(factions[fExpanding].controlledSystems)

\* C21: in a round of the expansion loop taken while the faction is below the
\* target size and an unclaimed star remains, exactly one star is claimed, an
\* unclaimed one, and the loop goes on (expansion does not stop); when no
\* unclaimed star has a controlled star of the faction at a distance below
\* 150 the claimed star is an unclaimed star nearest to the mean position of
\* the faction's controlled stars, and otherwise the fallback is not taken:
\* the claimed star has a controlled star at a distance below 150.
C21_FallbackClaimsNearestToCentroid ==
    [][ExpansionDue =>
          /\ fpc' = "expand"
          /\ fExpanding' = fExpanding
          /\ Cardinality(ClaimedIds) = 1
          /\ Len(factions'[fExpanding].controlledSystems)
                = Len(factions[fExpanding].controlledSystems) + 1
          /\ ClaimedStar \in Range(unclaimedStars)
          /\ Range(unclaimedStars') = Range(unclaimedStars) \ {ClaimedStar}
          /\ IF ExpansionCandidates = {}
             THEN \A u \in Range(unclaimedStars) :
                      CentroidDistance2(ClaimedStar) <= CentroidDistance2(u)
             ELSE ClaimedStar \in ExpansionCandidates]_vars

\* A faction has claimed, as its third star, a star that has neither of the
\* faction's two stars within 150: the fallback ran with the center of a
\* territory of two stars, and some unclaimed star was nearer to the home
\* system than the claimed star
C21_Witness ==
    \E f \in 1..Len(factions) :
        LET ids == factions[f].controlledSystems
            at(k) == fStars[FindStar(fStars, ids[k])].position
        IN  /\ Len(ids) = 3
            /\ f = fExpanding
            /\ fpc = "expand"
            /\ Dist2(at(3), at(1)) >= 150 * 150
            /\ Dist2(at(3), at(2)) >= 150 * 150
            /\ \E u \in Range(unclaimedStars) :
                  Dist2(fStars[u].position, at(1)) < Dist2(at(3), at(1))

-----------------------------------------------------------------------------
(* generateInitialFactions: the home stars *)

\* The stars (list positions) that are home stars so far
HomePositions == {i \in 1..Len(fStars) : fStars[i].id \in usedStars}

\* The squared distance of star c to the nearest home star chosen so far
HomeDistance2(c) ==
    LET ds == {Dist2(fStars[c].position, fStars[h].position) : h \in HomePositions}
    IN  CHOOSE d \in ds : \A other \in ds : d <= other

-----------------------------------------------------------------------------
(* generateInitialFactions: the fallback of the home search *)

\* Math.random() is fair: a loop that repeats as long as its draws fail, and
\* that some draw would end, is ended by a draw at last
FairDraws ==
    /\ WF_vars(HomesNext)
    /\ SF_vars(FallbackDraw /\ fpc' = "create")

-----------------------------------------------------------------------------
(* generateInitialFactions: the relation scores *)

\* The position of the star with the given id
PositionOf(id) == fStars[CHOOSE i \in 1..Len(fStars) : fStars[i].id = id].position

\* Some system of faction f and some system of faction g, as controlled in
\* the current state, are less than 300 apart
TerritoriesWithin300(f, g) ==
    \E a \in ControlledOf(f) : \E b \in ControlledOf(g) :
        Dist2(PositionOf(a), PositionOf(b)) < 300 * 300

\* The score of faction f towards faction g by the formula, in thousandths
\* (traits are in thousandths)
FormulaScore(f, g) ==
    LET raw == 20 * (factions[f].traits.diplomatic + factions[g].traits.diplomatic)
               - 15 * (factions[f].traits.aggressive + factions[g].traits.aggressive)
               + (IF factions[f].type = factions[g].type THEN 20000 ELSE 0)
               - (IF TerritoriesWithin300(f, g) THEN 15000 ELSE 0)
    IN  IF raw > 100000 THEN 100000 ELSE IF raw < -100000 THEN -100000 ELSE raw

\* C27: when generateInitialFactions has returned, for every ordered pair of
\* distinct factions (A, B) the score A stores for B is the clamp to
\* [-100, 100] of 20 x (diplomaticA + diplomaticB)
\* - 15 x (aggressiveA + aggressiveB), plus 20 if A and B have the same type,
\* minus 15 if a system of A and a system of B are less than 300 apart, the
\* territories being the returned ones, as they are after all the expansions.
C27_RelationScoreFormula ==
    fpc = "done" =>
        \A f \in FactionIndices : \A g \in FactionIndices :
            f # g => factions[f].relations[factions[g].id] = FormulaScore(f, g)

\* Returned factions whose home systems are at least 300 apart and whose
\* territories are less than 300 apart, and returned factions of the same type
C27_Witness ==
    /\ fpc = "done"
    /\ \E f \in FactionIndices : \E g \in FactionIndices :
          /\ f # g
          /\ Dist2(PositionOf(factions[f].homeSystemId),
                   PositionOf(factions[g].homeSystemId)) >= 300 * 300
          /\ TerritoriesWithin300(f, g)
    /\ \E f \in FactionIndices : \E g \in FactionIndices :
          f # g /\ factions[f].type = factions[g].type

-----------------------------------------------------------------------------
(* generateInitialFactions: the size of the territories *)

\* C28: on a star list of at least 11 stars (their ids are pairwise
\* distinct), the unclaimed stars never run out while a faction expands, and
\* every returned faction controls exactly floor((stars.length - 1) / 10)
\* different systems.
C28_ExactlyTargetSize ==
    Len(fStars) >= 11 =>
        /\ fpc = "expand" => unclaimedStars # <<>>
        /\ fpc = "done" =>
              \A f \in FactionIndices :
                  /\ Len(factions[f].controlledSystems) = (Len(fStars) - 1) \div 10
                  /\ Cardinality(ControlledOf(f)) = (Len(fStars) - 1) \div 10

\* Three factions are returned from a list of at least 21 stars, and the
\* last of them has grown by the fallback: the second system of its
\* territory is 150 or more away from its home
C28_Witness ==
    /\ fpc = "done"
    /\ Len(fStars) >= 21
    /\ Len(factions) = 3
    /\ Len(factions[3].controlledSystems) >= 2
    /\ Dist2(PositionOf(factions[3].controlledSystems[1]),
             PositionOf(factions[3].controlledSystems[2])) >= 150 * 150

-----------------------------------------------------------------------------
(* selectStartingSystem: the result is free of the factions *)

\* No two systems of the input have the same star position
PositionsDistinct ==
    \A i, j \in 1..Len(sSystems) :
        i # j => sSystems[i].star.position # sSystems[j].star.position

\* C29: when the star positions are pairwise distinct and some system of
\* ordinary star type is controlled by no faction, the system that
\* selectStartingSystem returns is controlled by no faction, whichever of the
\* three tiers produced it.
C29_ResultNotControlled ==
    (/\ spc = "done"
     /\ PositionsDistinct
     /\ \E i \in OrdinarySystems : sSystems[i].star.id \notin ControlledIds)
        => sResult.star.id \notin ControlledIds

\* The last tier returned a system no faction controls, although a system of
\* ordinary star type that a faction controls comes before it in the input
C29_Witness ==
    /\ spc = "done"
    /\ sTier = "fallback"
    /\ PositionsDistinct
    /\ sResult.star.id \notin ControlledIds
    /\ \E i, j \in OrdinarySystems :
          /\ i < j
          /\ sSystems[i].star.id \in ControlledIds
          /\ sResult = sSystems[j]

-----------------------------------------------------------------------------
(* Properties of the entry points' arguments *)

\* C18: no step of generateInitialFactions adds, removes, reorders or changes
\* an element of the star list it was given, and no step of
\* selectStartingSystem reorders or changes the systems array or the
\* factions (controlledSystems, relations) it was given.
C18_InputsUnchanged ==
    [][fStars' = fStars /\ sSystems' = sSystems /\ sFactions' = sFactions]_vars

\* selectStartingSystem returned from a ranking whose order is not the order
\* of the input, or generateInitialFactions returned with a faction that
\* claimed a star
C18_Witness ==
    \/ /\ spc = "done"
       /\ sTier = "strict"
       /\ Len(sCandidates) >= 2
       /\ \E a \in 1..Len(sSystems) : \E b \in 1..Len(sSystems) :
             /\ a < b
             /\ sCandidates[1] = sSystems[b]
             /\ sCandidates[2] = sSystems[a]
    \/ /\ fpc = "done"
       /\ \E f \in 1..Len(factions) : Len(factions[f].controlledSystems) >= 2

-----------------------------------------------------------------------------
(* generateGalaxy: inputs *)

\* Values of Math.cos and Math.sin of the sampled angle: the directions east
\* and north, which keep every coordinate an integer
Directions == { [cos |-> 1, sin |-> 0], [cos |-> 0, sin |-> 1] }

\* Values of Math.random() * CORE_RADIUS
CoreRadii == {0, 50, 100}

\* Values of raw_distance = Math.random() * GALAXY_RADIUS
SpiralRadii == {150, 1500, 1601, 2990}

\* Values of the Math.random() of the rejection test, in units of 1 / FixedOne
AcceptDraws == {0, 9990}

\* Value of the Math.random() of selectRandomType for a star, in units of 1 / FixedOne
StarTypeDraws == {9000}

-----------------------------------------------------------------------------
(* generateGalaxy: code *)

\* STAR_TYPES: type, size in tenths, probability in units of 1 / FixedOne
STAR_TYPES ==
    << [type |-> "RED_DWARF",    size |-> 10, probability |-> 3500],
       [type |-> "YELLOW_DWARF", size |-> 12, probability |-> 2500],
       [type |-> "BLUE_GIANT",   size |-> 15, probability |-> 1500],
       [type |-> "RED_GIANT",    size |-> 18, probability |-> 1000],
       [type |-> "NEUTRON",      size |-> 8,  probability |-> 300],
       [type |-> "PULSAR",       size |-> 9,  probability |-> 200],
       [type |-> "BLACK_HOLE",   size |-> 20, probability |-> 1000] >>

\* Lines 226-229: the probabilities of the core, doubled for sizes above 1.2
\* and halved for the others
CoreStarTypes ==
    [i \in 1..Len(STAR_TYPES) |->
        [STAR_TYPES[i] EXCEPT !.probability =
            IF STAR_TYPES[i].size > 12 THEN 2 * @ ELSE @ \div 2]]

\* selectRandomType: the first option whose running sum reaches random, else
\* the first option
RECURSIVE SelectFrom(_, _, _, _)
SelectFrom(options, random, i, sum) ==
    IF i > Len(options) THEN options[1]
    ELSE IF random <= sum + options[i].probability THEN options[i]
    ELSE SelectFrom(options, random, i + 1, sum + options[i].probability)

selectRandomType(options, random) == SelectFrom(options, random, 1, 0)

\* { x: GALAXY_RADIUS, y: GALAXY_RADIUS }
GalaxyCenter == [x |-> GALAXY_RADIUS, y |-> GALAXY_RADIUS]

\* generateCenterBlackHole (name, size and color are not modelled; origin is
\* not a field of Star: it records which function made the star)
generateCenterBlackHole ==
    [id |-> <<"g", 1>>, position |-> GalaxyCenter, type |-> "BLACK_HOLE",
     origin |-> "center"]

\* { x: GALAXY_RADIUS + distance * Math.cos(angle),
\*   y: GALAXY_RADIUS + distance * Math.sin(angle) }
PolarPosition(distance, dir) ==
    [x |-> GALAXY_RADIUS + distance * dir.cos,
     y |-> GALAXY_RADIUS + distance * dir.sin]

\* Math.exp(-x) for x in units of 1 / FixedOne, by its series: the sum from
\* term k on, the previous term being `term`
RECURSIVE ExpSeries(_, _, _)
ExpSeries(x, k, term) ==
    IF k > ExpTerms THEN 0
    ELSE LET next == (term * x) \div (k * FixedOne)
         IN  (IF k % 2 = 1 THEN -next ELSE next) + ExpSeries(x, k + 1, next)

ExpNeg(x) == FixedOne + ExpSeries(x, 1, FixedOne)

\* Line 163: density = Math.exp(-DENSITY_DROPOFF * (raw_distance / GALAXY_RADIUS))
\*                     * CENTER_DENSITY_BOOST, in units of 1 / FixedOne
Density(raw) ==
    ExpNeg((DropoffNum * raw * FixedOne) \div (DropoffDen * GALAXY_RADIUS))
        * CENTER_DENSITY_BOOST

\* Line 166: Math.random() > density
Rejected(draw, raw) == draw > Density(raw)

\* Lines 460-463: distanceFromCenter (the coordinates of the model make it an integer)
DistanceFromCenter(position) ==
    SqrtSearch(Dist2(position, GalaxyCenter), 0, 2 * GALAXY_RADIUS)

\* Line 468: minDistance = BASE_MIN_STAR_DISTANCE * (0.8 + distanceRatio * 0.4)
\*         = (2 * GALAXY_RADIUS + distanceFromCenter) / MinDistanceDen
MinDistanceNum(distanceFromCenter) == 2 * GALAXY_RADIUS + distanceFromCenter
MinDistanceDen == (10 * GALAXY_RADIUS) \div (4 * BASE_MIN_STAR_DISTANCE)

\* distance < minDistance for the squared distance d2.  A distance of
\* 4 * BASE_MIN_STAR_DISTANCE or more is above every minDistance, and is
\* answered first to keep the products small.
BelowMinDistance(d2, distanceFromCenter) ==
    /\ d2 < (4 * BASE_MIN_STAR_DISTANCE) * (4 * BASE_MIN_STAR_DISTANCE)
    /\ d2 * MinDistanceDen * MinDistanceDen
         < MinDistanceNum(distanceFromCenter) * MinDistanceNum(distanceFromCenter)

\* Lines 216-222: isTooClose of a core position
CoreTooClose(coreStars, position) ==
    \E i \in 1..Len(coreStars) :
        Dist2(position, coreStars[i].position)
            < MIN_CORE_STAR_DISTANCE * MIN_CORE_STAR_DISTANCE

\* As IsValidStar, without the distance test against the core stars (the
\* stars of the list after the center black hole that generateStar did not make)
IsValidStarAmongSpiral(stars, position) ==
    /\ ~\E i \in 1..Len(stars) :
           /\ stars[i].origin # "core"
           /\ BelowMinDistance(Dist2(position, stars[i].position),
                               DistanceFromCenter(position))
    /\ ~(Dist2(position, GalaxyCenter) > GALAXY_RADIUS * GALAXY_RADIUS)

\* As IsValidStar, with the distance test against the last star only
IsValidStarVersusLast(stars, position) ==
    /\ ~BelowMinDistance(Dist2(position, stars[Len(stars)].position),
                         DistanceFromCenter(position))
    /\ ~(Dist2(position, GalaxyCenter) > GALAXY_RADIUS * GALAXY_RADIUS)

\* Lines 457-481: isValid of a new star
IsValidStar(stars, position) ==
    /\ ~\E i \in 1..Len(stars) :
           BelowMinDistance(Dist2(position, stars[i].position),
                            DistanceFromCenter(position))
    /\ ~(Dist2(position, GalaxyCenter) > GALAXY_RADIUS * GALAXY_RADIUS)

\* Line 206: the loop condition of generateCoreStars
CoreLoopContinues(count, attempts) ==
    count < NUM_CORE_STARS /\ attempts < NUM_CORE_STARS * AttemptsPerStar

\* As PlacementContinues, with <= for the first <
PlacementContinuesInclusive(count, attempts) ==
    count <= MAX_STARS /\ attempts < MAX_STARS * AttemptsPerStar

\* Line 455: the loop condition of the placement loop
PlacementContinues(count, attempts) ==
    count < MAX_STARS /\ attempts < MAX_STARS * AttemptsPerStar

\* No raw_distance is drawn
NoRaw == -1

-----------------------------------------------------------------------------
(* generateGalaxy: actions *)

\* Lines 445-450 and 199-204: the center black hole is pushed and
\* generateCoreStars is entered
GalaxyStart ==
    /\ gpc = "core"
    /\ gStars = <<generateCenterBlackHole>>
    /\ gAttempts = 0
    /\ gCoreStars = <<>>
    /\ gCoreAttempts = 0
    /\ gRaw = NoRaw

\* generateGalaxy is not running
GalaxyIdle ==
    /\ gpc = "idle"
    /\ gStars = <<>>
    /\ gAttempts = 0
    /\ gCoreStars = <<>>
    /\ gCoreAttempts = 0
    /\ gRaw = NoRaw

\* Lines 206-242: one round of the loop of generateCoreStars
CoreAttempt ==
    /\ gpc = "core"
    /\ CoreLoopContinues(Len(gCoreStars), gCoreAttempts)
    /\ \E distance \in CoreRadii : \E dir \in Directions : \E random \in StarTypeDraws :
          LET position == PolarPosition(distance, dir)
          IN  IF ~CoreTooClose(gCoreStars, position)
              THEN gCoreStars' = Append(gCoreStars,
                       [id |-> <<"g", Len(gCoreStars) + 2>>,
                        position |-> position,
                        type |-> selectRandomType(CoreStarTypes, random).type,
                        origin |-> "core"])
              ELSE gCoreStars' = gCoreStars
    /\ gCoreAttempts' = gCoreAttempts + 1
    /\ UNCHANGED <<gpc, gStars, gAttempts, gRaw, notGalaxyVars>>

\* Lines 206, 244 and 453: generateCoreStars returns, its stars are pushed
\* (its locals are gone)
CoreDone ==
    /\ gpc = "core"
    /\ ~CoreLoopContinues(Len(gCoreStars), gCoreAttempts)
    /\ gStars' = gStars \o gCoreStars
    /\ gCoreStars' = <<>>
    /\ gCoreAttempts' = 0
    /\ gpc' = "place"
    /\ UNCHANGED <<gAttempts, gRaw, notGalaxyVars>>

\* As NextAttempts, without the increment
NextAttemptsUncounted(attempts) == attempts

\* Line 487: attempts++
NextAttempts(attempts) == attempts + 1

\* Lines 455-456 and 156-163: a round of the rejection loop of
\* generateSpiralPosition draws raw_distance
DrawPosition ==
    /\ gpc = "place"
    /\ PlacementContinues(Len(gStars), gAttempts)
    /\ \E raw \in SpiralRadii : gRaw' = raw
    /\ gpc' = "sample"
    /\ UNCHANGED <<gStars, gAttempts, gCoreStars, gCoreAttempts, notGalaxyVars>>

\* Lines 166-168: the point is rejected, the rejection loop goes on
RejectPosition ==
    /\ gpc = "sample"
    /\ \E draw \in AcceptDraws : Rejected(draw, gRaw)
    /\ gRaw' = NoRaw
    /\ gpc' = "place"
    /\ UNCHANGED <<gStars, gAttempts, gCoreStars, gCoreAttempts, notGalaxyVars>>

\* Lines 170-183 and 248-258, 457-487: the point is accepted, generateStar
\* returns the star and the placement loop keeps it if it is valid
PlaceStar ==
    /\ gpc = "sample"
    /\ \E draw \in AcceptDraws : ~Rejected(draw, gRaw)
    /\ \E dir \in Directions : \E random \in StarTypeDraws :
          LET position == PolarPosition(gRaw, dir)
          IN  IF IsValidStar(gStars, position)
              THEN gStars' = Append(gStars,
                       [id |-> <<"g", Len(gStars) + 1>>,
                        position |-> position,
                        type |-> selectRandomType(STAR_TYPES, random).type,
                        origin |-> "spiral"])
              ELSE gStars' = gStars
    /\ gAttempts' = NextAttempts(gAttempts)
    /\ gRaw' = NoRaw
    /\ gpc' = "place"
    /\ UNCHANGED <<gCoreStars, gCoreAttempts, notGalaxyVars>>

\* Lines 455 and 490-497: the placement loop is over, the galaxy is returned
GalaxyDone ==
    /\ gpc = "place"
    /\ ~PlacementContinues(Len(gStars), gAttempts)
    /\ gpc' = "done"
    /\ UNCHANGED <<gStars, gAttempts, gCoreStars, gCoreAttempts, gRaw, notGalaxyVars>>

GalaxyNext ==
    \/ CoreAttempt
    \/ CoreDone
    \/ DrawPosition
    \/ RejectPosition
    \/ PlaceStar
    \/ GalaxyDone

-----------------------------------------------------------------------------
(* generateStarSystem, generatePlanet, generateResources *)

\* Values of Math.random(), in units of 1 / FixedOne
RandomValues == {0, 3000, 5000, 7000, 8500, 9500}

\* The sequences of StreamPeriod values; Math.random() returns one of them
\* over and over
RandomStreams == [1..StreamPeriod -> RandomValues]

\* The value Math.random() returns after pos draws
DrawAt(stream, pos) == stream[(pos % Len(stream)) + 1]

\* Math.floor(random * n)
FloorTimes(random, n) == (random * n) \div FixedOne

\* PLANET_TYPES, probability in units of 1 / FixedOne
PLANET_TYPES ==
    << [type |-> "ROCKY",     probability |-> 4000],
       [type |-> "GAS_GIANT", probability |-> 2000],
       [type |-> "ICE",       probability |-> 2000],
       [type |-> "DESERT",    probability |-> 1000],
       [type |-> "OCEAN",     probability |-> 1000] >>

\* PLANET_RESOURCES: the resource types of each table, in order (the code
\* does not read the probabilities)
PLANET_RESOURCES ==
    [ROCKY |-> <<"IRON", "COPPER", "GOLD", "PLATINUM", "RARE_EARTH", "TITANIUM",
                 "URANIUM", "WATER", "SILICON", "CARBON">>,
     GAS_GIANT |-> <<"METHANE", "AMMONIA", "HELIUM_3", "DEUTERIUM", "FUEL",
                     "PLASMA", "HYDROGEN">>,
     ICE |-> <<"WATER", "ICE", "METHANE", "AMMONIA", "DEUTERIUM", "HELIUM_3">>,
     DESERT |-> <<"IRON", "COPPER", "GOLD", "SILICON", "WATER", "RARE_EARTH">>,
     OCEAN |-> <<"WATER", "DEUTERIUM", "ORGANICS", "FOOD", "RARE_EARTH">>]

\* Lines 279-311: amount = base + Math.random() * range, by resource type
AmountRange(type) ==
    CASE type = "WATER" -> [base |-> 5000, range |-> 15000]
      [] type = "FUEL" -> [base |-> 2000, range |-> 8000]
      [] type = "FOOD" -> [base |-> 1000, range |-> 4000]
      [] type \in {"IRON", "COPPER", "GOLD", "PLATINUM"} -> [base |-> 500, range |-> 2000]
      [] type = "RARE_EARTH" -> [base |-> 100, range |-> 500]
      [] type \in {"HELIUM_3", "DEUTERIUM"} -> [base |-> 50, range |-> 200]
      [] OTHER -> [base |-> 1000, range |-> 5000]

\* The amount, rounded down to a whole unit
AmountOf(type, random) ==
    AmountRange(type).base + (random * AmountRange(type).range) \div FixedOne

\* As Splice, removing nothing
SpliceNothing(s, index) == s

\* availableTypes.splice(randomIndex, 1): s without its element at index (from 0)
Splice(s, index) == SubSeq(s, 1, index) \o SubSeq(s, index + 2, Len(s))

\* Lines 267-318: the loop of generateResources from iteration i on. Every
\* iteration draws the index, the amount and the regeneration rate (the rate
\* is not modelled). The result is the list and the number of values drawn.
RECURSIVE ResourceLoop(_, _, _, _, _, _)
ResourceLoop(i, numResources, availableTypes, resources, stream, pos) ==
    IF i < numResources /\ Len(availableTypes) > 0
    THEN LET randomIndex == FloorTimes(DrawAt(stream, pos), Len(availableTypes))
             type == availableTypes[randomIndex + 1]
         IN  ResourceLoop(i + 1, numResources, Splice(availableTypes, randomIndex),
                          Append(resources,
                                 [type |-> type,
                                  amount |-> AmountOf(type, DrawAt(stream, pos + 1))]),
                          stream, pos + 3)
    ELSE [resources |-> resources, pos |-> pos]

\* generateResources(planetType), drawing from position pos of the stream
generateResources(planetType, stream, pos) ==
    ResourceLoop(0, 1 + FloorTimes(DrawAt(stream, pos), MaxResources),
                 PLANET_RESOURCES[planetType], <<>>, stream, pos + 1)

\* generatePlanet: the type is drawn first, then size and orbitSpeed (not
\* modelled), then the resources; id and name are not modelled
generatePlanet(starId, stream, pos) ==
    LET planetType == selectRandomType(PLANET_TYPES, DrawAt(stream, pos)).type
        made == generateResources(planetType, stream, pos + 3)
    IN  [planet |-> [type |-> planetType,
                     resources |-> made.resources,
                     buildings |-> <<>>,
                     starId |-> starId,
                     resourcePatches |-> <<>>],
         pos |-> made.pos]

\* As SystemResourcesType, with the last planet
SystemResourcesTypeOfLast(planets) == planets[Len(planets)].type

\* Line 352: the planet type the system's resources are generated for
SystemResourcesType(planets) == planets[1].type

\* The star lists that are mapped: 1 to MaxMappedStars stars
SystemsStart ==
    /\ yStars \in { [i \in 1..n |-> [id |-> StarIds[i]]] : n \in 1..MaxMappedStars }
    /\ ypc = "system"
    /\ yStream \in RandomStreams
    /\ yPos = 0
    /\ yNum = 0
    /\ yPlanets = <<>>
    /\ ySystems = <<>>

\* stars.map(generateStarSystem) is not running
SystemsIdle ==
    /\ yStars = <<>>
    /\ ypc = "idle"
    /\ yStream = <<>>
    /\ yPos = 0
    /\ yNum = 0
    /\ yPlanets = <<>>
    /\ ySystems = <<>>

\* Lines 341-342: generateStarSystem is called for the next star
BeginSystem ==
    /\ ypc = "system"
    /\ Len(ySystems) < Len(yStars)
    /\ yNum' = 1 + FloorTimes(DrawAt(yStream, yPos), MAX_PLANETS_PER_SYSTEM)
    /\ yPos' = (yPos + 1) % StreamPeriod
    /\ yPlanets' = <<>>
    /\ ypc' = "planets"
    /\ UNCHANGED <<yStars, yStream, ySystems, notSystemVars>>

\* Lines 344-346: one iteration of the planet loop
AddPlanet ==
    /\ ypc = "planets"
    /\ Len(yPlanets) < yNum
    /\ LET made == generatePlanet(yStars[Len(ySystems) + 1].id, yStream, yPos)
       IN  /\ yPlanets' = Append(yPlanets, made.planet)
           /\ yPos' = made.pos % StreamPeriod
    /\ UNCHANGED <<yStars, ypc, yStream, yNum, ySystems, notSystemVars>>

\* Lines 348-353: the system is returned to map
FinishSystem ==
    /\ ypc = "planets"
    /\ ~(Len(yPlanets) < yNum)
    /\ LET made == generateResources(SystemResourcesType(yPlanets), yStream, yPos)
       IN  /\ ySystems' = Append(ySystems,
                                 [star |-> yStars[Len(ySystems) + 1],
                                  planets |-> yPlanets,
                                  resources |-> made.resources])
           /\ yPos' = made.pos % StreamPeriod
    /\ yPlanets' = <<>>
    /\ yNum' = 0
    /\ ypc' = "system"
    /\ UNCHANGED <<yStars, yStream, notSystemVars>>

\* Line 491: map has visited every star
SystemsReturn ==
    /\ ypc = "system"
    /\ ~(Len(ySystems) < Len(yStars))
    /\ ypc' = "done"
    /\ UNCHANGED <<yStars, yStream, yPos, yNum, yPlanets, ySystems, notSystemVars>>

SystemsNext == BeginSystem \/ AddPlanet \/ FinishSystem \/ SystemsReturn

-----------------------------------------------------------------------------
(* generateStarSystem: properties *)

\* A resources list of 1 to 3 resources of pairwise distinct types, all from
\* the candidate table of the planet type
ResourcesFitType(resources, planetType) ==
    /\ Len(resources) >= 1
    /\ Len(resources) <= 3
    /\ \A a \in 1..Len(resources) : \A b \in 1..Len(resources) :
          a # b => resources[a].type # resources[b].type
    /\ \A a \in 1..Len(resources) :
          \E t \in 1..Len(PLANET_RESOURCES[planetType]) :
              PLANET_RESOURCES[planetType][t] = resources[a].type

\* C15 as stated: a system's resources list is the list generated for its
\* first planet, types and amounts.
C15_ResourcesOfFirstPlanet ==
    \A i \in 1..Len(ySystems) : ySystems[i].resources = ySystems[i].planets[1].resources

\* C15 (amended): a system's resources list is a list generated for the type
\* of its first planet: 1 to 3 resources of pairwise distinct types from the
\* candidate table of that type.
C15_ResourcesForFirstPlanetType ==
    \A i \in 1..Len(ySystems) :
        ResourcesFitType(ySystems[i].resources, ySystems[i].planets[1].type)

\* A system whose list has a type its first planet's list has not, and whose
\* last planet is of another type than the first
C15_Witness ==
    \E i \in 1..Len(ySystems) :
        LET s == ySystems[i]
        IN  /\ \E a \in 1..Len(s.resources) : \A b \in 1..Len(s.planets[1].resources) :
                  s.resources[a].type # s.planets[1].resources[b].type
            /\ s.planets[Len(s.planets)].type # s.planets[1].type

\* C16: map returns one system per star, in order; a system has 1 to 5
\* planets; a planet has its star's id as starId, no buildings, no resource
\* patches, and 1 to 3 resources of pairwise distinct types from the
\* candidate table of its type.
C16_SystemsAndPlanets ==
    /\ ypc = "done" => Len(ySystems) = Len(yStars)
    /\ \A i \in 1..Len(ySystems) :
          /\ ySystems[i].star = yStars[i]
          /\ Len(ySystems[i].planets) >= 1
          /\ Len(ySystems[i].planets) <= 5
          /\ \A p \in 1..Len(ySystems[i].planets) :
                LET planet == ySystems[i].planets[p]
                IN  /\ planet.starId = yStars[i].id
                    /\ planet.buildings = <<>>
                    /\ planet.resourcePatches = <<>>
                    /\ ResourcesFitType(planet.resources, planet.type)

\* Two systems were returned, one with 5 planets; some planet has 3 resources
\* and some planet has 1
C16_Witness ==
    /\ ypc = "done"
    /\ Len(ySystems) = 2
    /\ \E i \in 1..2 : Len(ySystems[i].planets) = 5
    /\ \E i \in 1..2 : \E p \in 1..Len(ySystems[i].planets) :
          Len(ySystems[i].planets[p].resources) = 3
    /\ \E i \in 1..2 : \E p \in 1..Len(ySystems[i].planets) :
          Len(ySystems[i].planets[p].resources) = 1

-----------------------------------------------------------------------------
(* generateStarName, generatePlanetName *)

starPrefixes ==
    {"Alpha", "Beta", "Gamma", "Delta", "Epsilon", "Zeta", "Eta", "Theta", "Iota",
     "Kappa"}

starRoots ==
    {"Centauri", "Draconis", "Cygni", "Eridani", "Lyrae", "Orionis", "Persei",
     "Tauri", "Ursae", "Vega"}

starSuffixes ==
    {"Prime", "Major", "Minor", "Superior", "Inferior", "Maxima", "Minima", "Nova",
     "Prima", "Ultima"}

\* planetLetters
planetLetters == <<"B", "C", "D", "E", "F", "G", "H", "I", "J">>

\* String.fromCharCode(97 + i), i from 0
LowercaseLetters == <<"a", "b", "c", "d", "e", "f", "g", "h", "i">>

\* starTypeSpecificNames (generateStarName reads the NEUTRON and PULSAR entries)
starTypeSpecificNames ==
    [NEUTRON |-> [prefixes |-> {"PSR", "NS", "J"},
                  roots |-> {"1234", "5678", "2000", "1900", "0120"},
                  suffixes |-> {"+6789", "-3456", "+2345", "-7890", "+1234"}],
     PULSAR |-> [prefixes |-> {"PSR", "MSP", "B"},
                 roots |-> {"1919", "0531", "0833", "1937", "0329"},
                 suffixes |-> {"+21", "-65", "+45", "-23", "+10"}]]

\* The names generateStarName(starType) can return: getRandomElement is any
\* element, usePrefix and useSuffix are either way
StarNames(starType) ==
    IF starType = "NEUTRON" \/ starType = "PULSAR"
    THEN { prefix \o " " \o root \o suffix :
             <<prefix, root, suffix>> \in
                 starTypeSpecificNames[starType].prefixes
                 \X starTypeSpecificNames[starType].roots
                 \X starTypeSpecificNames[starType].suffixes }
    ELSE { prefix \o root \o suffix :
             <<prefix, root, suffix>> \in
                 ({""} \cup {p \o " " : p \in starPrefixes})
                 \X starRoots
                 \X ({""} \cup {" " \o s : s \in starSuffixes}) }

\* starName.startsWith(prefix)
StartsWith(name, prefix) ==
    Len(name) >= Len(prefix) /\ SubSeq(name, 1, Len(prefix)) = prefix

\* starName.includes(' ')
HasSpace(name) == \E i \in 1..Len(name) : SubSeq(name, i, i) = " "

\* Line 95: the test for the names of neutron stars and pulsars
IsCatalogName(starName) ==
    \/ StartsWith(starName, "PSR")
    \/ StartsWith(starName, "NS")
    \/ StartsWith(starName, "MSP")
    \/ StartsWith(starName, "B")

\* generatePlanetName (planetType is not read)
generatePlanetName(planetType, starName, planetIndex) ==
    IF IsCatalogName(starName)
    THEN starName \o " " \o LowercaseLetters[planetIndex + 1]
    ELSE LET letter == IF planetIndex + 1 <= Len(planetLetters)
                       THEN planetLetters[planetIndex + 1]
                       ELSE planetLetters[Len(planetLetters)]
         IN  IF HasSpace(starName)
             THEN starName \o " " \o letter
             ELSE starName \o "-" \o letter

\* A star of any type is about to be named
NamesStart ==
    /\ npc = "star"
    /\ nStarType \in {STAR_TYPES[i].type : i \in 1..Len(STAR_TYPES)}
    /\ nStarName = ""
    /\ nIndex = 0
    /\ nPlanetName = ""

\* generateStarName and generatePlanetName are not running
NamesIdle ==
    /\ npc = "idle"
    /\ nStarType = ""
    /\ nStarName = ""
    /\ nIndex = 0
    /\ nPlanetName = ""

\* Lines 234 and 254 of galaxyGenerator.ts: the star is named
NameStar ==
    /\ npc = "star"
    /\ nStarName' \in StarNames(nStarType)
    /\ npc' = "planet"
    /\ UNCHANGED <<nStarType, nIndex, nPlanetName, notNameVars>>

\* Line 329 of galaxyGenerator.ts: planet number index of the star's system
\* is named (index < numPlanets <= MAX_PLANETS_PER_SYSTEM)
NamePlanet ==
    /\ npc = "planet"
    /\ \E index \in 0..(MAX_PLANETS_PER_SYSTEM - 1) :
       \E t \in 1..Len(PLANET_TYPES) :
          /\ nIndex' = index
          /\ nPlanetName' = generatePlanetName(PLANET_TYPES[t].type, nStarName, index)
    /\ npc' = "done"
    /\ UNCHANGED <<nStarType, nStarName, notNameVars>>

NamesNext == NameStar \/ NamePlanet

-----------------------------------------------------------------------------
(* generatePlanetName: properties *)

\* C19: the planet of a NEUTRON or PULSAR star is named by the star name, a
\* space and the index-th lowercase letter from a; the planet of any other
\* star by the star name and the index-th uppercase letter from B, joined by
\* a space if the star name has a space and by a hyphen otherwise.
C19_PlanetNameByStarType ==
    npc = "done" =>
        IF nStarType \in {"NEUTRON", "PULSAR"}
        THEN nPlanetName = nStarName \o " " \o <<"a", "b", "c", "d", "e">>[nIndex + 1]
        ELSE nPlanetName =
                 nStarName
                 \o (IF \E i \in 1..Len(nStarName) : SubSeq(nStarName, i, i) = " "
                     THEN " " ELSE "-")
                 \o <<"B", "C", "D", "E", "F">>[nIndex + 1]

-----------------------------------------------------------------------------
(* generateGalaxy: properties *)

GalaxyIndices == 1..Len(gStars)

\* distance >= 100 x (0.8 + 0.4 x d / R), that is 75 x distance >= 6000 + d,
\* for the squared distance d2 (400 and more is above every such minimum)
AtLeastMinimumOf(d2, d) ==
    \/ d2 >= 400 * 400
    \/ 5625 * d2 >= (6000 + d) * (6000 + d)

\* Every pair of core stars is at least 80 apart
CorePairsApart ==
    \A i \in GalaxyIndices : \A j \in GalaxyIndices :
        (i < j /\ gStars[i].origin = "core" /\ gStars[j].origin = "core")
            => Dist2(gStars[i].position, gStars[j].position) >= 80 * 80

\* C11 as stated: in the returned star list core stars are pairwise at least
\* 80 apart, and a pair with a spiral-sampled star in it is at least as far
\* apart as the minimum of each spiral-sampled star of the pair.
C11_MinimumOfEachStar ==
    gpc = "done" =>
        /\ CorePairsApart
        /\ \A i \in GalaxyIndices : \A j \in GalaxyIndices :
              (i # j /\ gStars[i].origin = "spiral")
                  => AtLeastMinimumOf(Dist2(gStars[i].position, gStars[j].position),
                                      DistanceFromCenter(gStars[i].position))

\* C11 (amended): in the returned star list core stars are pairwise at least
\* 80 apart, and a spiral-sampled star is at least its own minimum
\* 100 x (0.8 + 0.4 x d / R) away from every star placed before it.
C11_MinimumOfLaterStar ==
    gpc = "done" =>
        /\ CorePairsApart
        /\ \A i \in GalaxyIndices : \A j \in GalaxyIndices :
              (j < i /\ gStars[i].origin = "spiral")
                  => AtLeastMinimumOf(Dist2(gStars[i].position, gStars[j].position),
                                      DistanceFromCenter(gStars[i].position))

\* A returned list with a core star and two spiral-sampled stars less than
\* 120 apart
C11_Witness ==
    /\ gpc = "done"
    /\ \E i \in GalaxyIndices : gStars[i].origin = "core"
    /\ \E i \in GalaxyIndices : \E j \in GalaxyIndices :
          /\ j < i
          /\ gStars[i].origin = "spiral"
          /\ gStars[j].origin = "spiral"
          /\ Dist2(gStars[i].position, gStars[j].position) < 120 * 120

\* The star that the step appends to the list
AddedStar == gStars'[Len(gStars')]

\* The position is within radius R = 3000 of the center (3000, 3000)
WithinGalaxy(position) ==
    Dist2(position, [x |-> 3000, y |-> 3000]) <= 3000 * 3000

\* C30: a spiral-sampled star is added to the list only if it lies within R
\* of the center and is at least its own minimum 100 x (0.8 + 0.4 x d / R)
\* away from every star already in the list, d being its distance from the
\* center; and at every moment each pair of stars of the list with a
\* spiral-sampled star in it is at least 80 apart and each star of the list
\* lies within R of the center.
C30_SpiralStarAdmission ==
    /\ [][(gpc = "sample" /\ Len(gStars') = Len(gStars) + 1) =>
             /\ AddedStar.origin = "spiral"
             /\ SubSeq(gStars', 1, Len(gStars)) = gStars
             /\ WithinGalaxy(AddedStar.position)
             /\ \A j \in GalaxyIndices :
                   AtLeastMinimumOf(Dist2(AddedStar.position, gStars[j].position),
                                    DistanceFromCenter(AddedStar.position))]_vars
    /\ [](/\ \A i \in GalaxyIndices : \A j \in GalaxyIndices :
                (i # j /\ gStars[i].origin = "spiral")
                    => Dist2(gStars[i].position, gStars[j].position) >= 80 * 80
          /\ \A i \in GalaxyIndices : WithinGalaxy(gStars[i].position))

\* A returned list in which a spiral-sampled star is less than 200 from a
\* core star, some sampled star having been turned down on the way
C30_Witness ==
    /\ gpc = "done"
    /\ \E i \in GalaxyIndices : \E j \in GalaxyIndices :
          /\ gStars[i].origin = "spiral"
          /\ gStars[j].origin = "core"
          /\ Dist2(gStars[i].position, gStars[j].position) < 200 * 200
    /\ gAttempts > Cardinality({k \in GalaxyIndices : gStars[k].origin = "spiral"})

\* C12: generateGalaxy returns between 1 and MAX_STARS stars, the first being
\* the center black hole at (R, R); the placement loop never runs beyond
\* MAX_STARS stars or MAX_STARS x 10 attempts, and it returns only when one
\* of the two is reached.
C12_StarCountAndCenter ==
    /\ gpc # "idle" =>
          /\ Len(gStars) >= 1
          /\ Len(gStars) <= MAX_STARS
          /\ gAttempts <= MAX_STARS * 10
          /\ gStars[1].type = "BLACK_HOLE"
          /\ gStars[1].position = [x |-> 3000, y |-> 3000]
    /\ gpc = "sample" => (Len(gStars) < MAX_STARS /\ gAttempts < MAX_STARS * 10)
    /\ gpc = "done" => (Len(gStars) = MAX_STARS \/ gAttempts = MAX_STARS * 10)

\* The attempts ran out: fewer than MAX_STARS stars are returned
C12_Witness ==
    /\ gpc = "done"
    /\ gAttempts = MAX_STARS * 10
    /\ Len(gStars) < MAX_STARS

\* A round of generateSpiralPosition has drawn a point that the density test
\* rejects for some value of Math.random()
RejectablePointDrawn ==
    gpc = "sample" /\ \E draw \in AcceptDraws : Rejected(draw, gRaw)

\* C17 as stated: every loop of generateGalaxy is bounded by a hard attempt
\* cap: the counters never pass 10 x NUM_CORE_STARS and 10 x MAX_STARS, every
\* round of the core loop uses up a core attempt, and every round of position
\* sampling uses up a placement attempt.
C17_EveryRoundUsesAnAttempt ==
    [][/\ gCoreAttempts' <= 10 * NUM_CORE_STARS
       /\ gAttempts' <= 10 * MAX_STARS
       /\ (gpc = "core" /\ gpc' = "core") => gCoreAttempts' = gCoreAttempts + 1
       /\ gpc = "sample" => gAttempts' = gAttempts + 1]_vars

\* C17 (amended): the core loop and the placement loop are bounded by their
\* attempt caps; a round of position sampling uses up a placement attempt
\* unless its point is one the density test can reject, and nothing caps
\* those rounds.
C17_EveryRoundButRejectionUsesAnAttempt ==
    [][/\ gCoreAttempts' <= 10 * NUM_CORE_STARS
       /\ gAttempts' <= 10 * MAX_STARS
       /\ (gpc = "core" /\ gpc' = "core") => gCoreAttempts' = gCoreAttempts + 1
       /\ gpc = "sample" => (gAttempts' = gAttempts + 1 \/ RejectablePointDrawn)]_vars

\* The galaxy was returned with a star sampled where points can be rejected,
\* after both the core loop and the placement loop have run
C17_Witness ==
    /\ gpc = "done"
    /\ gAttempts >= 2
    /\ \E i \in GalaxyIndices : gStars[i].origin = "core"
    /\ \E i \in GalaxyIndices : \E draw \in AcceptDraws :
          /\ gStars[i].origin = "spiral"
          /\ Rejected(draw, DistanceFromCenter(gStars[i].position))

-----------------------------------------------------------------------------
(* Specifications *)

LanesInit ==
    LanesStart /\ TraitsIdle /\ StartIdle /\ FactionsIdle /\ GalaxyIdle
        /\ SystemsIdle /\ NamesIdle
SpecLanes == LanesInit /\ [][LanesNext]_vars

TraitsInit ==
    TraitsStart /\ LanesIdle /\ StartIdle /\ FactionsIdle /\ GalaxyIdle
        /\ SystemsIdle /\ NamesIdle
SpecTraits == TraitsInit /\ [][TraitsNext]_vars

StartInit ==
    StartStart /\ LanesIdle /\ TraitsIdle /\ FactionsIdle /\ GalaxyIdle
        /\ SystemsIdle /\ NamesIdle
SpecStart == StartInit /\ [][StartNext]_vars

FactionsInit ==
    FactionsStart /\ LanesIdle /\ TraitsIdle /\ StartIdle /\ GalaxyIdle
        /\ SystemsIdle /\ NamesIdle
SpecFactions == FactionsInit /\ [][FactionsNext]_vars

\* The strict tier of selectStartingSystem on arrays of more than 5 systems
RankingInit ==
    RankingStart /\ LanesIdle /\ TraitsIdle /\ FactionsIdle /\ GalaxyIdle
        /\ SystemsIdle /\ NamesIdle
SpecRanking == RankingInit /\ [][RankingNext]_vars


NamesInit ==
    NamesStart /\ LanesIdle /\ TraitsIdle /\ StartIdle /\ FactionsIdle
        /\ GalaxyIdle /\ SystemsIdle
SpecNames == NamesInit /\ [][NamesNext]_vars

\* generateInitialFactions on the list with the close stars
ClusterInit ==
    ClusterStart /\ LanesIdle /\ TraitsIdle /\ StartIdle /\ GalaxyIdle
        /\ SystemsIdle /\ NamesIdle
SpecCluster == ClusterInit /\ [][FactionsNext]_vars

\* The home loop of generateInitialFactions on the shortest lists it ends on,
\* with fair draws of Math.random()
ShortListInit ==
    ShortListStart /\ LanesIdle /\ TraitsIdle /\ StartIdle /\ GalaxyIdle
        /\ SystemsIdle /\ NamesIdle
SpecHomesFair == ShortListInit /\ [][HomesNext]_vars /\ FairDraws

\* generateInitialFactions up to the first call of expandFactionTerritory
SpecHomes == FactionsInit /\ [][HomesNext]_vars

\* generateInitialFactions from the first call of expandFactionTerritory on
ExpansionInit ==
    ExpansionStart /\ LanesIdle /\ TraitsIdle /\ StartIdle /\ GalaxyIdle
        /\ SystemsIdle /\ NamesIdle
SpecExpansion == ExpansionInit /\ [][ExpansionNext]_vars

\* Both entry points that take the caller's arrays: generateInitialFactions
\* from its entry on the short lists and from the first expansion on the
\* long ones, selectStartingSystem on the arrays of systems 250 apart
WideArrayInit ==
    WideArrayStart /\ LanesIdle /\ TraitsIdle /\ FactionsIdle /\ GalaxyIdle
        /\ SystemsIdle /\ NamesIdle
SpecEntryPoints ==
    (ShortListInit \/ ExpansionInit \/ WideArrayInit)
        /\ [][FactionsNext \/ StartNext]_vars

GalaxyInit ==
    GalaxyStart /\ LanesIdle /\ TraitsIdle /\ StartIdle /\ FactionsIdle
        /\ SystemsIdle /\ NamesIdle
SpecGalaxy == GalaxyInit /\ [][GalaxyNext]_vars

SystemsInit ==
    SystemsStart /\ LanesIdle /\ TraitsIdle /\ StartIdle /\ FactionsIdle
        /\ GalaxyIdle /\ NamesIdle
SpecSystems == SystemsInit /\ [][SystemsNext]_vars

=============================================================================
